---- MODULE Spec2Model ----
(***************************************************************************)
(* Model of the Tariff Saver store (custom_components/tariff_saver):       *)
(* sample ingestion, price table, slot finalizer, dirty flag / save,       *)
(* period totals, the stored blob, its migration and load.                 *)
(*                                                                         *)
(* Conventions                                                             *)
(*  - instants are integers: minutes on the UTC time line.                 *)
(*  - an aware datetime is [wall, off]: wall-clock minutes and UTC offset; *)
(*    its instant is wall - off.  Its isoformat() string is <<wall, off>>  *)
(*    (the digits of the wall clock, then the offset suffix); strings are  *)
(*    ordered as Python orders them, character by character.               *)
(*  - the "start" of a booked record is read only through parse_datetime   *)
(*    and as_utc, so a record keeps the instant its string denotes.        *)
(*  - kWh readings and CHF/kWh prices are integers (scaled units); float   *)
(*    rounding is not modelled.                                            *)
(*  - Python's None / "not a number" is the empty tuple, a present value   *)
(*    x is <<x>>.                                                          *)
(*  - component maps are functions whose DOMAIN is a set of component      *)
(*    names.                                                               *)
(***************************************************************************)
EXTENDS Integers, Sequences, FiniteSets, TLC

VARIABLES
    store,      \* the TariffSaverStore object built by async_setup_entry
    clock,      \* dt_util.utcnow(), minutes
    tz_skew,    \* (process local UTC offset) - (offset of HA's default zone), minutes
    last,       \* the operation that produced this state: [op, now, ret, again];
                \* again: a finalize directly after a finalize with the same now
    disk,       \* the durable blob tariff_saver.<entry_id>: the dict last written
    save_pc,    \* async_save of `store`: "idle", "writing" (suspended in the
                \* durable write, data not yet serialized), "written" (data
                \* serialized, coroutine not yet resumed)
    coord_store, \* TariffSaverCoordinator.store: None, or the store it built
    coord       \* the TariffSaverCoordinator: its configuration,
                \* _last_fetch_date and the data of its last successful refresh

vars == <<store, clock, tz_skew, last, disk, save_pc, coord_store, coord>>

----------------------------------------------------------------------------
(* Program constants *)

SLOT_MINUTES == 15
CUTOFF_MINUTES == 1
KEEP_DAYS_SAMPLES == 14
KEEP_DAYS_BOOKED == 400
KEEP_DAYS_PRICES == 7
MinutesPerDay == 24 * 60

----------------------------------------------------------------------------
(* Bounds of the model *)

MaxSamples == 2         \* add_sample is offered while fewer samples are stored

----------------------------------------------------------------------------
(* Optional values and component maps *)

None == << >>
Some(x) == << x >>
IsNone(o) == Len(o) = 0
Val(o) == o[1]

EmptyMap == [c \in {} |-> 0]
MapOf(S, v) == [c \in S |-> v]
Merge(m1, m2) ==
    [c \in (DOMAIN m1) \cup (DOMAIN m2) |-> IF c \in DOMAIN m2 THEN m2[c] ELSE m1[c]]

----------------------------------------------------------------------------
(* Datetimes and ISO strings *)

\* a datetime in UTC at instant t
utc_datetime(t) == [wall |-> t, off |-> 0]

\* dt_util.as_utc: the same instant, expressed in UTC
as_utc(d) == [wall |-> d.wall - d.off, off |-> 0]

\* datetime.isoformat(): "YYYY-MM-DDTHH:MM:SS" of the wall clock, then "+HH:MM"
\* or "-HH:MM" of the offset
isoformat(d) == <<d.wall, d.off>>

\* the offset suffixes as strings: '+' sorts before '-', then the digits
SuffixLess(o1, o2) ==
    IF o1 >= 0 /\ o2 >= 0 THEN o1 < o2
    ELSE IF o1 < 0 /\ o2 < 0 THEN o1 > o2
    ELSE o1 >= 0

\* Python's str order on two ISO strings
IsoLess(a, b) == a[1] < b[1] \/ (a[1] = b[1] /\ SuffixLess(a[2], b[2]))

----------------------------------------------------------------------------
(* Store construction *)

NewStore ==
    [ price_slots |-> [k \in {} |-> 0],
      samples |-> << >>,
      booked |-> << >>,
      last_api_success_utc |-> None,
      dirty |-> FALSE ]

----------------------------------------------------------------------------
(* Price table *)

\* isinstance(v, (int, float)): a raw component value is numeric or not
IsNumeric(raw) == ~IsNone(raw)

\* {k: float(v) for k, v in m.items() if isinstance(v, (int, float))}
NumericOnly(m) == [c \in {k \in DOMAIN m : IsNumeric(m[k])} |-> Val(m[c])]

\* faulty variant: the new components are merged into the entry already there
set_price_slot_merge(st, start_utc, dyn_in, base_in, api_in) ==
    LET key == isoformat(as_utc(start_utc))
        had == key \in DOMAIN st.price_slots
        dyn == IF had THEN Merge(st.price_slots[key].dyn, NumericOnly(dyn_in))
               ELSE NumericOnly(dyn_in)
        base == IF IsNone(base_in) \/ DOMAIN Val(base_in) = {}
                THEN (IF had THEN st.price_slots[key].base ELSE None)
                ELSE Some(NumericOnly(Val(base_in)))
        entry == [dyn |-> dyn, base |-> base, api_integrated |-> api_in]
    IN  [st EXCEPT
            !.price_slots = [k \in (DOMAIN st.price_slots) \cup {key} |->
                                IF k = key THEN entry ELSE st.price_slots[k]],
            !.dirty = TRUE]

\* set_price_slot: overwrite the entry at the UTC key of start_utc, an
\* aware datetime.  dyn_in is a map of raw values; base_in is None or such
\* a map; api_in is a raw value.
set_price_slot(st, start_utc, dyn_in, base_in, api_in) ==
    LET key == isoformat(as_utc(start_utc))
        dyn == NumericOnly(dyn_in)
        base == IF IsNone(base_in) \/ DOMAIN Val(base_in) = {}
                THEN None
                ELSE Some(NumericOnly(Val(base_in)))
        entry == [dyn |-> dyn, base |-> base, api_integrated |-> api_in]
    IN  [st EXCEPT
            !.price_slots = [k \in (DOMAIN st.price_slots) \cup {key} |->
                                IF k = key THEN entry ELSE st.price_slots[k]],
            !.dirty = TRUE]

\* faulty variant: a slot without entry takes the entry of the slot before it
get_price_components_carry(st, start_utc) ==
    LET key == isoformat(as_utc(start_utc))
        prev == <<key[1] - SLOT_MINUTES, key[2]>>
        hit == IF key \in DOMAIN st.price_slots THEN {key}
               ELSE IF prev \in DOMAIN st.price_slots THEN {prev} ELSE {}
    IN  IF hit = {}
        THEN <<None, None, None>>
        ELSE LET slot == st.price_slots[CHOOSE k \in hit : TRUE]
             IN  <<Some(slot.dyn), slot.base, slot.api_integrated>>

\* get_price_components: exact-key lookup, <<dyn, base, api_integrated>>
get_price_components(st, start_utc) ==
    LET key == isoformat(as_utc(start_utc))
    IN  IF key \notin DOMAIN st.price_slots
        THEN <<None, None, None>>
        ELSE LET slot == st.price_slots[key]
             IN  <<Some(slot.dyn), slot.base, slot.api_integrated>>

\* faulty variant: entries are evicted without marking the store dirty
trim_price_slots_silent(st, now_clock, keep_days) ==
    LET cutoff_iso == isoformat(utc_datetime(now_clock - keep_days * MinutesPerDay))
        kept == {k \in DOMAIN st.price_slots : ~IsoLess(k, cutoff_iso)}
    IN  [st EXCEPT !.price_slots = [k \in kept |-> st.price_slots[k]]]

\* trim_price_slots: keep the entries whose key string is >= the cutoff string
trim_price_slots(st, now_clock, keep_days) ==
    LET cutoff_iso == isoformat(utc_datetime(now_clock - keep_days * MinutesPerDay))
        kept == {k \in DOMAIN st.price_slots : ~IsoLess(k, cutoff_iso)}
    IN  [st EXCEPT
            !.price_slots = [k \in kept |-> st.price_slots[k]],
            !.dirty = IF Cardinality(kept) # Cardinality(DOMAIN st.price_slots)
                      THEN TRUE ELSE st.dirty]

\* set_last_api_success
set_last_api_success(st, when_utc) ==
    [st EXCEPT !.last_api_success_utc = Some(when_utc), !.dirty = TRUE]

----------------------------------------------------------------------------
(* Samples *)

\* _trim_samples: keep the samples with ts >= utcnow - keep_days
trim_samples(samples, now_clock, keep_days) ==
    LET cutoff == now_clock - keep_days * MinutesPerDay
    IN  SelectSeq(samples, LAMBDA s : s.ts >= cutoff)

\* faulty variant: a sample at the timestamp of the most recent one is appended too
add_sample_no_dedup(st, now_clock, ts_utc, kwh_raw) ==
    IF ~IsNumeric(kwh_raw)
    THEN [store |-> st, ret |-> FALSE]
    ELSE [store |-> [st EXCEPT
                        !.samples = trim_samples(
                            Append(st.samples, [ts |-> ts_utc, kwh |-> Val(kwh_raw)]),
                            now_clock, KEEP_DAYS_SAMPLES),
                        !.dirty = TRUE],
          ret |-> TRUE]

\* add_sample: [store, ret]
add_sample(st, now_clock, ts_utc, kwh_raw) ==
    IF ~IsNumeric(kwh_raw)
    THEN [store |-> st, ret |-> FALSE]
    ELSE IF st.samples # << >> /\ st.samples[Len(st.samples)].ts = ts_utc
    THEN [store |-> st, ret |-> FALSE]
    ELSE [store |-> [st EXCEPT
                        !.samples = trim_samples(
                            Append(st.samples, [ts |-> ts_utc, kwh |-> Val(kwh_raw)]),
                            now_clock, KEEP_DAYS_SAMPLES),
                        !.dirty = TRUE],
          ret |-> TRUE]

----------------------------------------------------------------------------
(* Booking *)

\* _slot_start_utc: floor to the quarter hour
slot_start_utc(t) == (t \div SLOT_MINUTES) * SLOT_MINUTES

\* _append_booked
append_booked(booked, start_utc, kwh, status, dyn, base, sav) ==
    Append(booked, [start |-> start_utc, kwh |-> kwh, status |-> status,
                    dyn |-> dyn, base |-> base, sav |-> sav])

\* faulty variant: a record exactly keep_days old is dropped too
trim_booked_strict(booked, now_clock, keep_days) ==
    LET cutoff == now_clock - keep_days * MinutesPerDay
    IN  SelectSeq(booked, LAMBDA b : b.start > cutoff)

\* faulty variant: nothing is ever trimmed
trim_booked_none(booked, now_clock, keep_days) == booked

\* _trim_booked: keep the records with start >= utcnow - keep_days
trim_booked(booked, now_clock, keep_days) ==
    LET cutoff == now_clock - keep_days * MinutesPerDay
    IN  SelectSeq(booked, LAMBDA b : b.start >= cutoff)

\* dt_util.as_utc(datetime.fromtimestamp(ts)): fromtimestamp yields the naive
\* wall time of the process's local zone, as_utc reads a naive datetime in
\* HA's default zone.  The instant moves by the difference of the two offsets.
from_timestamp(ts, skew) == ts + skew

\* p put into a sorted list behind the points that are not later than it
InsertSorted(sorted, p) ==
    SelectSeq(sorted, LAMBDA q : q.dtp <= p.dtp)
        \o << p >> \o SelectSeq(sorted, LAMBDA q : q.dtp > p.dtp)

\* list.sort(key=lambda x: x[0]) is stable
RECURSIVE SortPoints(_)
SortPoints(pts) ==
    IF pts = << >> THEN << >>
    ELSE InsertSorted(SortPoints(SubSeq(pts, 1, Len(pts) - 1)), pts[Len(pts)])

\* the sample_points list of finalize_due_slots
sample_points(samples, skew) ==
    SortPoints([i \in 1..Len(samples) |->
                   [dtp |-> from_timestamp(samples[i].ts, skew), kwh |-> samples[i].kwh]])

RECURSIVE kwh_scan(_, _, _)
kwh_scan(pts, t, prev) ==
    IF pts = << >> THEN prev
    ELSE IF Head(pts).dtp <= t
         THEN kwh_scan(Tail(pts), t, Some(Head(pts).kwh))
         ELSE prev

\* kwh_at: value of the last sample point at or before t, or None
kwh_at(pts, t) == kwh_scan(pts, t, None)

\* cost map of one price map: the components with a nonzero price
cost_map(prices, delta) ==
    [c \in {k \in DOMAIN prices : prices[k] # 0} |-> delta * prices[c]]

\* faulty variant: savings for every baseline component, a missing dynamic cost as 0
sav_map_all_base(dyn_cost, base_cost) ==
    [c \in DOMAIN base_cost |->
        base_cost[c] - (IF c \in DOMAIN dyn_cost THEN dyn_cost[c] ELSE 0)]

\* savings: the components of base_cost that dyn_cost has too
sav_map(dyn_cost, base_cost) ==
    [c \in {k \in DOMAIN base_cost : k \in DOMAIN dyn_cost} |-> base_cost[c] - dyn_cost[c]]

\* status of a priced slot
priced_status(dyn_cost) == IF DOMAIN dyn_cost # {} THEN "ok" ELSE "unpriced"

\* one iteration of the while loop: the booked list after booking `cursor`
book_slot(st, pts, booked, cursor) ==
    LET slot_end == cursor + SLOT_MINUTES
        kwh_start == kwh_at(pts, cursor)
        kwh_end == kwh_at(pts, slot_end)
    IN  IF IsNone(kwh_start) \/ IsNone(kwh_end)
        THEN append_booked(booked, cursor, 0, "missing_samples", EmptyMap, EmptyMap, EmptyMap)
        ELSE LET delta == Val(kwh_end) - Val(kwh_start)
             IN  IF delta < 0
                 THEN append_booked(booked, cursor, 0, "invalid", EmptyMap, EmptyMap, EmptyMap)
                 ELSE LET pc == get_price_components(st, utc_datetime(cursor))
                          dyn_prices == pc[1]
                          base_prices == pc[2]
                      IN  IF IsNone(dyn_prices) \/ DOMAIN Val(dyn_prices) = {}
                          THEN append_booked(booked, cursor, delta, "unpriced",
                                             EmptyMap, EmptyMap, EmptyMap)
                          ELSE LET dyn_cost == cost_map(Val(dyn_prices), delta)
                                   base_cost ==
                                       IF IsNone(base_prices) \/ DOMAIN Val(base_prices) = {}
                                       THEN EmptyMap
                                       ELSE cost_map(Val(base_prices), delta)
                                   sav_cost == sav_map(dyn_cost, base_cost)
                               IN  append_booked(booked, cursor, delta,
                                                 priced_status(dyn_cost),
                                                 dyn_cost, base_cost, sav_cost)

\* faulty variant: slots are booked up to now, without the one-minute margin
RECURSIVE finalize_loop_no_margin(_, _, _, _, _, _)
finalize_loop_no_margin(st, pts, booked, cursor, end_slot, cutoff) ==
    IF cursor + SLOT_MINUTES > cutoff + CUTOFF_MINUTES THEN booked
    ELSE finalize_loop_no_margin(st, pts, book_slot(st, pts, booked, cursor),
                                 cursor + SLOT_MINUTES, end_slot, cutoff)

\* faulty variant: the loop stops after the first slot it books
finalize_loop_single(st, pts, booked, cursor, end_slot, cutoff) ==
    IF ~(cursor < end_slot) THEN booked
    ELSE IF cursor + SLOT_MINUTES > cutoff THEN booked
    ELSE book_slot(st, pts, booked, cursor)

\* the while loop of finalize_due_slots
RECURSIVE finalize_loop(_, _, _, _, _, _)
finalize_loop(st, pts, booked, cursor, end_slot, cutoff) ==
    IF ~(cursor < end_slot) THEN booked
    ELSE IF cursor + SLOT_MINUTES > cutoff THEN booked
    ELSE finalize_loop(st, pts, book_slot(st, pts, booked, cursor),
                       cursor + SLOT_MINUTES, end_slot, cutoff)

\* faulty variant: every call starts over at the earliest sample point
start_cursor_restart(st, pts) == slot_start_utc(pts[1].dtp)

\* faulty variant: the call starts at the last booked slot, not one slot after it
start_cursor_same(st, pts) ==
    IF st.booked # << >>
    THEN st.booked[Len(st.booked)].start
    ELSE slot_start_utc(pts[1].dtp)

\* the cursor finalize_due_slots starts from
start_cursor(st, pts) ==
    IF st.booked # << >>
    THEN st.booked[Len(st.booked)].start + SLOT_MINUTES
    ELSE slot_start_utc(pts[1].dtp)

\* faulty variant: the last due slot is left for a later call that never books it
end_slot_lagging(now_utc) == slot_start_utc(now_utc - CUTOFF_MINUTES) - SLOT_MINUTES

\* the end_slot of finalize_due_slots
end_slot_of(now_utc) == slot_start_utc(now_utc - CUTOFF_MINUTES)

\* faulty variant: a single sample is enough to start booking
finalize_due_slots_one_sample(st, now_clock, skew, now_utc) ==
    LET cutoff == now_utc - CUTOFF_MINUTES
    IN  IF Len(st.samples) < 1
        THEN [store |-> st, ret |-> 0]
        ELSE LET pts == sample_points(st.samples, skew)
                 after == finalize_loop(st, pts, st.booked, start_cursor(st, pts),
                                        end_slot_of(now_utc), cutoff)
                 newly == Len(after) - Len(st.booked)
             IN  IF newly # 0
                 THEN [store |-> [st EXCEPT
                                     !.booked = trim_booked(after, now_clock, KEEP_DAYS_BOOKED),
                                     !.dirty = TRUE],
                       ret |-> newly]
                 ELSE [store |-> st, ret |-> 0]

\* faulty variant: the call marks the store dirty whatever it booked and
\* drops the samples that lie before the slots still to be booked
finalize_due_slots_consuming(st, now_clock, skew, now_utc) ==
    LET cutoff == now_utc - CUTOFF_MINUTES
    IN  IF Len(st.samples) < 2
        THEN [store |-> [st EXCEPT !.dirty = TRUE], ret |-> 0]
        ELSE LET pts == sample_points(st.samples, skew)
                 after == finalize_loop(st, pts, st.booked, start_cursor(st, pts),
                                        end_slot_of(now_utc), cutoff)
             IN  [store |-> [st EXCEPT
                                !.booked = trim_booked(after, now_clock, KEEP_DAYS_BOOKED),
                                !.samples = SelectSeq(st.samples,
                                                LAMBDA x : x.ts >= end_slot_of(now_utc) - SLOT_MINUTES),
                                !.dirty = TRUE],
                  ret |-> Len(after) - Len(st.booked)]

\* finalize_due_slots: [store, ret]
finalize_due_slots(st, now_clock, skew, now_utc) ==
    LET cutoff == now_utc - CUTOFF_MINUTES
    IN  IF Len(st.samples) < 2
        THEN [store |-> st, ret |-> 0]
        ELSE LET pts == sample_points(st.samples, skew)
                 cursor == start_cursor(st, pts)
                 end_slot == end_slot_of(now_utc)
                 after == finalize_loop(st, pts, st.booked, cursor, end_slot, cutoff)
                 newly == Len(after) - Len(st.booked)
             IN  IF newly # 0
                 THEN [store |-> [st EXCEPT
                                     !.booked = trim_booked(after, now_clock, KEEP_DAYS_BOOKED),
                                     !.dirty = TRUE],
                       ret |-> newly]
                 ELSE [store |-> st, ret |-> 0]

----------------------------------------------------------------------------
(* The civil calendar of a datetime's wall clock; day 0 is 1970-01-01 *)

Years == 1969..1975

IsLeap(y) == (y % 4 = 0 /\ y % 100 # 0) \/ y % 400 = 0
DaysInYear(y) == IF IsLeap(y) THEN 366 ELSE 365
DaysInMonth(y, m) ==
    IF m = 2 THEN (IF IsLeap(y) THEN 29 ELSE 28)
    ELSE IF m \in {4, 6, 9, 11} THEN 30 ELSE 31

RECURSIVE DaysBeforeYear(_)
DaysBeforeYear(y) ==
    IF y = 1970 THEN 0
    ELSE IF y > 1970 THEN DaysBeforeYear(y - 1) + DaysInYear(y - 1)
    ELSE DaysBeforeYear(y + 1) - DaysInYear(y)

RECURSIVE DaysBeforeMonth(_, _)
DaysBeforeMonth(y, m) ==
    IF m = 1 THEN 0 ELSE DaysBeforeMonth(y, m - 1) + DaysInMonth(y, m - 1)

\* datetime.toordinal of the wall clock, counted from 1970-01-01
toordinal(d) == d.wall \div MinutesPerDay

\* d.year, d.month, d.day
year_of(d) ==
    CHOOSE y \in Years :
        DaysBeforeYear(y) <= toordinal(d) /\ toordinal(d) < DaysBeforeYear(y + 1)
month_of(d) ==
    LET r == toordinal(d) - DaysBeforeYear(year_of(d))
    IN  CHOOSE m \in 1..12 :
            /\ DaysBeforeMonth(year_of(d), m) <= r
            /\ r < DaysBeforeMonth(year_of(d), m) + DaysInMonth(year_of(d), m)
day_of(d) ==
    toordinal(d) - DaysBeforeYear(year_of(d)) - DaysBeforeMonth(year_of(d), month_of(d)) + 1

\* d.isoweekday(): Monday is 1; 1970-01-01 was a Thursday
isoweekday(d) == ((toordinal(d) + 3) % 7) + 1

\* datetime(y, m, day, 0, 0) in the zone of offset off
civil_midnight(y, m, day, off) ==
    [wall |-> (DaysBeforeYear(y) + DaysBeforeMonth(y, m) + day - 1) * MinutesPerDay,
     off |-> off]

\* d.replace(hour=0, minute=0, second=0, microsecond=0)
replace_midnight(d) == [wall |-> toordinal(d) * MinutesPerDay, off |-> d.off]

\* d + timedelta(days=n)
plus_days(d, n) == [wall |-> d.wall + n * MinutesPerDay, off |-> d.off]

\* dt_util.now(): utcnow in Home Assistant's default zone
now_local(now_clock, off) == [wall |-> now_clock + off, off |-> off]

----------------------------------------------------------------------------
(* Period breakdown totals *)

AddMaps(m1, m2) ==
    [c \in (DOMAIN m1) \cup (DOMAIN m2) |->
        (IF c \in DOMAIN m1 THEN m1[c] ELSE 0) + (IF c \in DOMAIN m2 THEN m2[c] ELSE 0)]

\* faulty variant: the end of the range is counted too
RECURSIVE sum_between_local_closed(_, _, _)
sum_between_local_closed(booked, start_local, end_local) ==
    IF booked = << >>
    THEN [dyn |-> EmptyMap, base |-> EmptyMap, sav |-> EmptyMap]
    ELSE LET out == sum_between_local_closed(SubSeq(booked, 1, Len(booked) - 1),
                                             start_local, end_local)
             b == booked[Len(booked)]
         IN  IF ~(as_utc(start_local).wall <= b.start /\ b.start <= as_utc(end_local).wall)
             THEN out
             ELSE [dyn |-> AddMaps(out.dyn, b.dyn),
                   base |-> AddMaps(out.base, b.base),
                   sav |-> AddMaps(out.sav, b.sav)]

\* _sum_between_local: per bucket and component, the sum over the records
\* with start_utc <= start < end_utc
RECURSIVE sum_between_local(_, _, _)
sum_between_local(booked, start_local, end_local) ==
    IF booked = << >>
    THEN [dyn |-> EmptyMap, base |-> EmptyMap, sav |-> EmptyMap]
    ELSE LET out == sum_between_local(SubSeq(booked, 1, Len(booked) - 1),
                                      start_local, end_local)
             b == booked[Len(booked)]
         IN  IF ~(as_utc(start_local).wall <= b.start /\ b.start < as_utc(end_local).wall)
             THEN out
             ELSE [dyn |-> AddMaps(out.dyn, b.dyn),
                   base |-> AddMaps(out.base, b.base),
                   sav |-> AddMaps(out.sav, b.sav)]

\* faulty variant: a month is taken to last 30 days
period_bounds_30(now, period) ==
    IF period = "week"
    THEN LET start == replace_midnight(plus_days(now, -(isoweekday(now) - 1)))
         IN  <<start, plus_days(start, 7)>>
    ELSE IF period = "month"
    THEN LET start == civil_midnight(year_of(now), month_of(now), 1, now.off)
         IN  <<start, plus_days(start, 30)>>
    ELSE IF period = "year"
    THEN LET start == civil_midnight(year_of(now), 1, 1, now.off)
         IN  <<start, civil_midnight(year_of(start) + 1, 1, 1, now.off)>>
    ELSE LET start == replace_midnight(now)
         IN  <<start, plus_days(start, 1)>>

\* _period_bounds: <<start, end>> of the period around now
period_bounds(now, period) ==
    IF period = "today"
    THEN LET start == replace_midnight(now)
         IN  <<start, plus_days(start, 1)>>
    ELSE IF period = "week"
    THEN LET start == replace_midnight(plus_days(now, -(isoweekday(now) - 1)))
         IN  <<start, plus_days(start, 7)>>
    ELSE IF period = "month"
    THEN LET start == civil_midnight(year_of(now), month_of(now), 1, now.off)
         IN  <<start,
               IF month_of(start) = 12
               THEN civil_midnight(year_of(start) + 1, 1, 1, now.off)
               ELSE civil_midnight(year_of(start), month_of(start) + 1, 1, now.off)>>
    ELSE IF period = "year"
    THEN LET start == civil_midnight(year_of(now), 1, 1, now.off)
         IN  <<start, civil_midnight(year_of(start) + 1, 1, 1, now.off)>>
    ELSE LET start == replace_midnight(now)
         IN  <<start, plus_days(start, 1)>>

\* compute_period_breakdown
compute_period_breakdown(st, now, period) ==
    LET pb == period_bounds(now, period)
    IN  sum_between_local(st.booked, pb[1], pb[2])

----------------------------------------------------------------------------
(* Sums over component maps *)

\* the list of components counted in the import "all-in" sum
IMPORT_ALLIN_COMPONENTS ==
    <<"electricity", "grid", "regional_fees", "metering", "refund_storage">>

\* float(m.get(c, 0.0) or 0.0): the value stored under c, 0 for a missing
\* key and for None.  m maps component names to None or a number.
component_or_zero(m, c) ==
    IF c \in DOMAIN m /\ ~IsNone(m[c]) THEN Val(m[c]) ELSE 0

\* faulty variant: every key of the map is summed, the list is not consulted
RECURSIVE sum_components_all(_, _)
sum_components_all(m, components) ==
    IF DOMAIN m = {} THEN 0
    ELSE LET c == CHOOSE x \in DOMAIN m : TRUE
         IN  component_or_zero(m, c)
                 + sum_components_all([k \in (DOMAIN m) \ {c} |-> m[k]], components)

\* sum_components: the sum, along the list, of the values of m
RECURSIVE sum_components(_, _)
sum_components(m, components) ==
    IF components = << >> THEN 0
    ELSE component_or_zero(m, Head(components)) + sum_components(m, Tail(components))

----------------------------------------------------------------------------
(* The stored blob: JSON values *)

\* a JSON value under a key of a dict: the key is absent, or it holds a
\* number, a text that is not a number, or a dict of numbers
\* (n: the number, m: the dict)
Absent == [kind |-> "absent", n |-> 0, m |-> EmptyMap]
Num(x) == [kind |-> "num", n |-> x, m |-> EmptyMap]
Text == [kind |-> "text", n |-> 0, m |-> EmptyMap]
Dict(d) == [kind |-> "dict", n |-> 0, m |-> d]

\* an option as a JSON value, and back
NumOrAbsent(o) == IF IsNone(o) THEN Absent ELSE Num(Val(o))
DictOrAbsent(o) == IF IsNone(o) THEN Absent ELSE Dict(Val(o))

\* dt_util.parse_datetime: None for a string that is no ISO datetime (the
\* empty tuple stands for such a string)
parse_datetime(str) ==
    IF Len(str) = 2 THEN Some([wall |-> str[1], off |-> str[2]]) ELSE None

\* an entry of "price_slots": shape "dict" with the values under "dyn",
\* "base", "api_integrated", or shape "junk" for a value that is no dict
price_item(entry) ==
    [shape |-> "dict", dyn |-> Dict(entry.dyn), base |-> DictOrAbsent(entry.base),
     api_integrated |-> NumOrAbsent(entry.api_integrated)]

\* an item of "samples": shape "dict" {"ts", "kwh"}, shape "pair"
\* [iso, kwh], or shape "junk"
sample_item(smp) ==
    [shape |-> "dict", ts |-> Num(smp.ts), iso |-> << >>, kwh |-> Num(smp.kwh)]

\* an item of "booked": shape "dict" with the values under "start", "kwh",
\* "status", "dyn", "base", "sav" and under the legacy keys "dyn_chf",
\* "base_chf", "savings_chf", or shape "junk"; has_start: the key "start"
\* is present
booked_item(b) ==
    [shape |-> "dict", has_start |-> TRUE, start |-> isoformat(utc_datetime(b.start)),
     kwh |-> Num(b.kwh), status |-> Some(b.status),
     dyn |-> Dict(b.dyn), base |-> Dict(b.base), sav |-> Dict(b.sav),
     dyn_chf |-> Absent, base_chf |-> Absent, savings_chf |-> Absent]

\* [f(x) for x in seq]
RECURSIVE MapSeq(_, _)
MapSeq(f(_), seq) ==
    IF seq = << >> THEN << >>
    ELSE MapSeq(f, SubSeq(seq, 1, Len(seq) - 1)) \o << f(seq[Len(seq)]) >>

----------------------------------------------------------------------------
(* Load / Save *)

\* _as_dict: the persisted part of the store, as JSON; "booked_slots" is the
\* key of the oldest blobs, never written
as_dict(st) ==
    [ price_slots |-> [k \in DOMAIN st.price_slots |-> price_item(st.price_slots[k])],
      samples |-> MapSeq(sample_item, st.samples),
      booked |-> Some(MapSeq(booked_item, st.booked)),
      booked_slots |-> None,
      last_api_success_utc |->
          IF IsNone(st.last_api_success_utc) THEN None
          ELSE Some(isoformat(utc_datetime(Val(st.last_api_success_utc)))) ]

\* the price entry the store holds for a stored item
loaded_entry(item) ==
    [dyn |-> item.dyn.m,
     base |-> IF item.base.kind = "dict" THEN Some(item.base.m) ELSE None,
     api_integrated |-> IF item.api_integrated.kind = "num"
                        THEN Some(item.api_integrated.n) ELSE None]

\* faulty variant: the timestamp of a loaded sample is cut to its slot start
loaded_sample_slot(item) == [ts |-> slot_start_utc(item.ts.n), kwh |-> item.kwh.n]

\* the sample the store holds for a stored item
loaded_sample(item) == [ts |-> item.ts.n, kwh |-> item.kwh.n]

\* float(x) succeeds
Floatable(x) == x.kind = "num"

\* the booked record the store holds for a stored item; a bucket that is no
\* dict counts as an empty one wherever it is read
loaded_booked(item) ==
    [start |-> as_utc(Val(parse_datetime(item.start))).wall,
     kwh |-> item.kwh.n,
     status |-> Val(item.status),
     dyn |-> IF item.dyn.kind = "dict" THEN item.dyn.m ELSE EmptyMap,
     base |-> IF item.base.kind = "dict" THEN item.base.m ELSE EmptyMap,
     sav |-> IF item.sav.kind = "dict" THEN item.sav.m ELSE EmptyMap]

\* async_load into a new store: price_slots as stored; the samples that are
\* dicts with float-able "ts" and "kwh"; the booked items that are dicts
\* with a "start"; the last-fetch timestamp parsed; dirty = False
async_load(blob) ==
    [ price_slots |->
          [k \in {x \in DOMAIN blob.price_slots :
                      /\ blob.price_slots[x].shape = "dict"
                      /\ blob.price_slots[x].dyn.kind = "dict"} |->
              loaded_entry(blob.price_slots[k])],
      samples |->
          MapSeq(loaded_sample,
                 SelectSeq(blob.samples,
                           LAMBDA it : /\ it.shape = "dict"
                                       /\ Floatable(it.ts)
                                       /\ Floatable(it.kwh))),
      booked |->
          IF IsNone(blob.booked) THEN << >>
          ELSE MapSeq(loaded_booked,
                      SelectSeq(Val(blob.booked),
                                LAMBDA it : it.shape = "dict" /\ it.has_start)),
      last_api_success_utc |->
          IF IsNone(blob.last_api_success_utc) THEN None
          ELSE LET dtp == parse_datetime(Val(blob.last_api_success_utc))
               IN  IF IsNone(dtp) THEN None ELSE Some(as_utc(Val(dtp)).wall),
      dirty |-> FALSE ]

----------------------------------------------------------------------------
(* Migration of older stored schemas *)

STORAGE_VERSION == 4

Electricity(n) == MapOf({"electricity"}, n)

\* price_slots: a scalar "dyn" becomes {"electricity": dyn}, a numeric
\* "base" likewise and any other base None; a dict "dyn" is copied; every
\* other entry is dropped
migrate_price_slots(slots) ==
    [k \in {x \in DOMAIN slots :
                /\ slots[x].shape = "dict"
                /\ slots[x].dyn.kind \in {"num", "dict"}} |->
        IF slots[k].dyn.kind = "num"
        THEN [shape |-> "dict",
              dyn |-> Dict(Electricity(slots[k].dyn.n)),
              base |-> IF slots[k].base.kind = "num"
                       THEN Dict(Electricity(slots[k].base.n)) ELSE Absent,
              api_integrated |-> Absent]
        ELSE slots[k]]

\* a sample item that is converted: a dict with float-able "ts" and "kwh",
\* or a pair of a parseable ISO string and a float-able value
sample_converts(it) ==
    \/ it.shape = "dict" /\ Floatable(it.ts) /\ Floatable(it.kwh)
    \/ it.shape = "pair" /\ ~IsNone(parse_datetime(it.iso)) /\ Floatable(it.kwh)

migrate_sample(it) ==
    IF it.shape = "dict"
    THEN [shape |-> "dict", ts |-> Num(it.ts.n), iso |-> << >>, kwh |-> Num(it.kwh.n)]
    ELSE [shape |-> "dict", ts |-> Num(as_utc(Val(parse_datetime(it.iso))).wall),
          iso |-> << >>, kwh |-> Num(it.kwh.n)]

migrate_samples(samples) == MapSeq(migrate_sample, SelectSeq(samples, sample_converts))

\* float(x or 0.0): raises for a text that is no number and for a dict
FloatRaises(x) == x.kind \in {"text", "dict"}
FloatOrZero(x) == IF x.kind = "num" THEN x.n ELSE 0

\* '"dyn" not in b and ("dyn_chf" in b or "base_chf" in b or "savings_chf" in b)'
HasLegacyCosts(b) ==
    /\ b.dyn.kind = "absent"
    /\ \/ b.dyn_chf.kind # "absent"
       \/ b.base_chf.kind # "absent"
       \/ b.savings_chf.kind # "absent"

\* the items of the v3 list that are looked at
listed(b) == b.shape = "dict" /\ b.has_start

\* faulty variant: the scalar costs are converted whether or not the record
\* already has component maps
migrate_booked_item_always(b) ==
    [b EXCEPT !.dyn = Dict(Electricity(FloatOrZero(b.dyn_chf))),
              !.base = Dict(Electricity(FloatOrZero(b.base_chf))),
              !.sav = Dict(Electricity(FloatOrZero(b.savings_chf))),
              !.dyn_chf = Absent, !.base_chf = Absent, !.savings_chf = Absent]

\* v3 list item: scalar costs become {"electricity": cost} and the legacy
\* keys are popped; a record that has "dyn" is copied
migrate_booked_item(b) ==
    IF HasLegacyCosts(b)
    THEN [b EXCEPT !.dyn = Dict(Electricity(FloatOrZero(b.dyn_chf))),
                   !.base = Dict(Electricity(FloatOrZero(b.base_chf))),
                   !.sav = Dict(Electricity(FloatOrZero(b.savings_chf))),
                   !.dyn_chf = Absent, !.base_chf = Absent, !.savings_chf = Absent]
    ELSE b

booked_item_raises(b) ==
    /\ listed(b)
    /\ HasLegacyCosts(b)
    /\ FloatRaises(b.dyn_chf) \/ FloatRaises(b.base_chf) \/ FloatRaises(b.savings_chf)

\* payload.get("dyn_chf", payload.get("dyn", 0.0)) and its like
FirstPresent(a, b) == IF a.kind # "absent" THEN a ELSE b

\* v2 dict item: the record built from start_iso and its payload
migrate_booked_slot(start_iso, payload) ==
    LET dyn == FloatOrZero(FirstPresent(payload.dyn_chf, payload.dyn))
        base == FloatOrZero(FirstPresent(payload.base_chf, payload.base))
        sav == FloatOrZero(FirstPresent(payload.savings_chf, payload.sav))
    IN  [shape |-> "dict", has_start |-> TRUE, start |-> start_iso,
         kwh |-> Num(FloatOrZero(payload.kwh)),
         status |-> IF ~IsNone(payload.status) THEN payload.status
                    ELSE IF dyn # 0 \/ base # 0 THEN Some("ok") ELSE Some("unpriced"),
         dyn |-> Dict(Electricity(dyn)),
         base |-> Dict(Electricity(base)),
         sav |-> Dict(Electricity(sav)),
         dyn_chf |-> Absent, base_chf |-> Absent, savings_chf |-> Absent]

booked_slot_raises(payload) ==
    /\ payload.shape = "dict"
    /\ \/ FloatRaises(payload.kwh)
       \/ FloatRaises(FirstPresent(payload.dyn_chf, payload.dyn))
       \/ FloatRaises(FirstPresent(payload.base_chf, payload.base))
       \/ FloatRaises(FirstPresent(payload.savings_chf, payload.sav))

\* new_booked.sort(key=lambda x: str(x.get("start", ""))) over the keys
RECURSIVE SortedKeys(_)
SortedKeys(keys) ==
    IF keys = {} THEN << >>
    ELSE LET first == CHOOSE k \in keys : \A o \in keys : ~IsoLess(o, k)
         IN  << first >> \o SortedKeys(keys \ {first})

migrate_booked_slots(slots) ==
    LET keys == SortedKeys({k \in DOMAIN slots : slots[k].shape = "dict"})
    IN  [i \in 1..Len(keys) |-> migrate_booked_slot(keys[i], slots[keys[i]])]

\* _async_migrate(old_version, old_minor, old_data): [raised, data]
async_migrate(old_version, blob) ==
    IF old_version >= 4
    THEN [raised |-> FALSE,
          data |-> [blob EXCEPT !.booked = IF IsNone(@) THEN Some(<< >>) ELSE @]]
    ELSE IF ~IsNone(blob.booked)
    THEN [raised |-> \E i \in 1..Len(Val(blob.booked)) :
                         booked_item_raises(Val(blob.booked)[i]),
          data |-> [price_slots |-> migrate_price_slots(blob.price_slots),
                    samples |-> migrate_samples(blob.samples),
                    booked |-> Some(MapSeq(migrate_booked_item,
                                           SelectSeq(Val(blob.booked), listed))),
                    booked_slots |-> None,
                    last_api_success_utc |-> blob.last_api_success_utc]]
    ELSE IF ~IsNone(blob.booked_slots)
    THEN [raised |-> \E k \in DOMAIN Val(blob.booked_slots) :
                         booked_slot_raises(Val(blob.booked_slots)[k]),
          data |-> [price_slots |-> migrate_price_slots(blob.price_slots),
                    samples |-> migrate_samples(blob.samples),
                    booked |-> Some(migrate_booked_slots(Val(blob.booked_slots))),
                    booked_slots |-> None,
                    last_api_success_utc |-> blob.last_api_success_utc]]
    ELSE [raised |-> FALSE,
          data |-> [price_slots |-> migrate_price_slots(blob.price_slots),
                    samples |-> migrate_samples(blob.samples),
                    booked |-> Some(<< >>),
                    booked_slots |-> None,
                    last_api_success_utc |-> blob.last_api_success_utc]]

----------------------------------------------------------------------------
(* The price coordinator *)

\* the UTC offset of Home Assistant's default zone; the process runs in UTC
local_offset(skew) == -skew

\* the configuration read by TariffSaverCoordinator.__init__: the mode,
\* whether ems_instance_id and redirect_uri are set, whether a baseline
\* tariff is named
PublicConfig == [mode |-> "public", ems |-> FALSE, baseline_tariff_name |-> TRUE]

NewCoordinator(config) ==
    [mode |-> config.mode, ems |-> config.ems,
     baseline_tariff_name |-> config.baseline_tariff_name,
     last_fetch_date |-> None, data |-> None]

RECURSIVE SumValues(_)
SumValues(m) ==
    IF DOMAIN m = {} THEN 0
    ELSE LET c == CHOOSE x \in DOMAIN m : TRUE
         IN  m[c] + SumValues([k \in (DOMAIN m) \ {c} |-> m[k]])

\* EkzTariffApi.sum_chf_per_kwh on the parsed components of a price item:
\* the electricity component if there is one, else the sum of all
sum_chf_per_kwh(comps) ==
    IF "electricity" \in DOMAIN comps THEN comps["electricity"] ELSE SumValues(comps)

\* _parse_prices: items whose start_timestamp parses, as PriceSlots in UTC,
\* sorted by start, the last item of a start kept
parse_prices(raw_prices) ==
    LET ok == {i \in 1..Len(raw_prices) :
                  ~IsNone(parse_datetime(raw_prices[i].start_timestamp))}
        start(i) == as_utc(Val(parse_datetime(raw_prices[i].start_timestamp)))
        lastOf(t) == CHOOSE i \in ok :
                        /\ start(i).wall = t
                        /\ \A j \in ok : start(j).wall = t => j <= i
        RECURSIVE ordered(_)
        ordered(T) ==
            IF T = {} THEN << >>
            ELSE LET t == CHOOSE x \in T : \A y \in T : x <= y
                 IN  << [start |-> utc_datetime(t),
                         price_chf_per_kwh |-> sum_chf_per_kwh(raw_prices[lastOf(t)].comps)] >>
                         \o ordered(T \ {t})
    IN  ordered({start(i).wall : i \in ok})

\* [s for s in slots if s.price_chf_per_kwh > 0]
positive_slots(slots) == SelectSeq(slots, LAMBDA s : s.price_chf_per_kwh > 0)

\* base_map.get(start_utc): None, or the price of the slot at that start
base_get(baseline, start_utc) ==
    LET hit == SelectSeq(baseline, LAMBDA s : s.start = start_utc)
    IN  IF hit = << >> THEN None ELSE Some(hit[Len(hit)].price_chf_per_kwh)

\* set_price_slot as _async_update_data calls it, with a float for the
\* dynamic components and a float or None for the baseline components:
\* `(dyn or {}).items()` and `base.items()` raise AttributeError on a
\* nonzero float before the table is touched; a zero float is falsy and
\* reads as no components
set_price_slot_floats(st, start_utc, dyn_price, base_price) ==
    IF dyn_price # 0
    THEN [raised |-> TRUE, st |-> st]
    ELSE IF ~IsNone(base_price) /\ Val(base_price) # 0
    THEN [raised |-> TRUE, st |-> st]
    ELSE [raised |-> FALSE, st |-> set_price_slot(st, start_utc, EmptyMap, None, None)]

\* for start_utc, dyn_price in active_map.items(): set_price_slot(...);
\* the first call that raises ends the loop
RECURSIVE persist_price_slots(_, _, _)
persist_price_slots(st, active, baseline) ==
    IF active = << >> THEN [raised |-> FALSE, st |-> st]
    ELSE LET r == set_price_slot_floats(st, active[1].start, active[1].price_chf_per_kwh,
                                        base_get(baseline, active[1].start))
         IN  IF r.raised THEN r ELSE persist_price_slots(r.st, Tail(active), baseline)

\* the value a refresh returns: the active and the baseline curve
RefreshData(active, baseline) == [active |-> active, baseline |-> baseline]

\* faulty variant: the date of the last fetch is not consulted
never_fetched(co, today) == FALSE

\* self._last_fetch_date == today
already_fetched(co, today) == co.last_fetch_date = Some(today)

\* _async_update_data with a bound store st.  fetch: what the API answers if
\* asked (link: emsLinkStatus succeeds; active, baseline: None for an
\* error, else the raw price items).  Returns the coordinator, the store,
\* the blob written (None if none), how the call ended ("cached", "failed":
\* UpdateFailed, "raised": another exception, "ok"), the number of API
\* calls made, the parsed active curve and the value returned
async_update_data(co, st, now_clock, off, fetch) ==
    LET today == toordinal(now_local(now_clock, off))
        quit(outcome, calls, st1, active) ==
            [coord |-> co, store |-> st1, blob |-> None, outcome |-> outcome,
             api_calls |-> calls, active |-> active, data |-> RefreshData(<< >>, << >>)]
    IN  IF already_fetched(co, today)
        THEN [coord |-> co, store |-> st, blob |-> None, outcome |-> "cached",
              api_calls |-> 0, active |-> << >>,
              data |-> IF IsNone(co.data) THEN RefreshData(<< >>, << >>) ELSE Val(co.data)]
        ELSE IF co.mode = "myekz"
        THEN IF ~co.ems THEN quit("failed", 0, st, << >>)
             ELSE IF ~fetch.link THEN quit("failed", 1, st, << >>)
             ELSE [coord |-> [co EXCEPT !.last_fetch_date = Some(today),
                                        !.data = Some(RefreshData(<< >>, << >>))],
                   store |-> st, blob |-> None, outcome |-> "ok",
                   api_calls |-> 1, active |-> << >>, data |-> RefreshData(<< >>, << >>)]
        ELSE IF IsNone(fetch.active) THEN quit("failed", 1, st, << >>)
        ELSE LET active == parse_prices(Val(fetch.active))
             IN  IF active = << >> THEN quit("failed", 1, st, << >>)
                 ELSE LET st1 == set_last_api_success(st, now_clock)
                          baseline == IF co.baseline_tariff_name /\ ~IsNone(fetch.baseline)
                                      THEN parse_prices(Val(fetch.baseline))
                                      ELSE << >>
                          calls == IF co.baseline_tariff_name THEN 2 ELSE 1
                          p == persist_price_slots(st1, positive_slots(active),
                                                   positive_slots(baseline))
                          st2 == trim_price_slots(p.st, now_clock, KEEP_DAYS_PRICES)
                      IN  IF p.raised THEN quit("raised", calls, p.st, active)
                          ELSE [coord |-> [co EXCEPT
                                             !.last_fetch_date = Some(today),
                                             !.data = Some(RefreshData(active, baseline))],
                                store |-> IF st2.dirty THEN [st2 EXCEPT !.dirty = FALSE] ELSE st2,
                                blob |-> IF st2.dirty THEN Some(as_dict(st2)) ELSE None,
                                outcome |-> "ok", api_calls |-> calls, active |-> active,
                                data |-> RefreshData(active, baseline)]

----------------------------------------------------------------------------
(* Inputs offered by the environment *)

\* utcnow at start
InitClock == SLOT_MINUTES

Raw(m) == [c \in DOMAIN m |-> Some(m[c])]

\* (dynamic, baseline, integrated total) prices offered to set_price_slot
PriceChoices ==
    { \* a dynamic component priced zero whose baseline is nonzero
      [dyn |-> Raw(Merge(MapOf({"electricity"}, 2), MapOf({"grid"}, 0))),
       base |-> Some(Raw(Merge(MapOf({"electricity"}, 3), MapOf({"grid"}, 1)))),
       api |-> Some(7)],
      \* every dynamic price zero, baseline nonzero
      [dyn |-> Raw(MapOf({"electricity"}, 0)),
       base |-> Some(Raw(MapOf({"electricity"}, 3))),
       api |-> None],
      \* no baseline
      [dyn |-> Raw(Merge(MapOf({"electricity"}, 2), MapOf({"grid"}, 1))),
       base |-> None,
       api |-> None],
      \* no dynamic component at all
      [dyn |-> EmptyMap,
       base |-> Some(Raw(MapOf({"electricity"}, 3))),
       api |-> None] }

\* the slot prices are published for: instant 0, given in UTC and in UTC+1
PriceStarts == {utc_datetime(0), [wall |-> 60, off |-> 60]}
\* sample instants: on the boundary of slot 0, inside slot 0, inside slot 1
SampleTimes == {0, 5, SLOT_MINUTES + 5}
KwhInputs == {Some(1), Some(3), None}
\* now on the first slot boundary, and one minute past each boundary
NowValues == {SLOT_MINUTES} \cup {k * SLOT_MINUTES + CUTOFF_MINUTES : k \in {1, 2}}
\* same zone; process in UTC with HA's default zone at UTC+1
TzSkews == {0, -60}
\* the instants the clock is observed at: the start, and one retention
\* window (of samples, of booked records) later
ClockValues ==
    {InitClock + days * MinutesPerDay : days \in {0, KEEP_DAYS_SAMPLES, KEEP_DAYS_BOOKED}}

----------------------------------------------------------------------------
(* Actions *)

\* after async_setup_entry built the store and loaded the (empty) blob
Init ==
    /\ store = NewStore
    /\ clock = InitClock
    /\ tz_skew \in TzSkews
    /\ last = [op |-> "init", now |-> 0, ret |-> 0, again |-> FALSE]
    /\ disk = as_dict(NewStore)
    /\ save_pc = "idle"
    /\ coord_store = None
    /\ coord = NewCoordinator(PublicConfig)

\* the meter-reading collaborator calls store.add_sample(ts, kwh)
AddSample(ts, kwh_raw) ==
    /\ Len(store.samples) < MaxSamples
    /\ LET r == add_sample(store, clock, ts, kwh_raw)
       IN  /\ store' = r.store
           /\ last' = [op |-> "add_sample", now |-> 0, ret |-> IF r.ret THEN 1 ELSE 0,
                      again |-> FALSE]
    /\ UNCHANGED <<clock, tz_skew, disk, save_pc, coord_store, coord>>

\* the tariff-fetch collaborator calls
\* store.set_price_slot(start, dyn, base, api_integrated);
\* again: the call overwrote an entry that had a baseline
SetPriceSlot(start, choice) ==
    /\ store' = set_price_slot(store, start, choice.dyn, choice.base, choice.api)
    /\ last' = [op |-> "set_price_slot", now |-> 0, ret |-> 0,
                again |-> LET pc == get_price_components(store, start)
                          IN  ~IsNone(pc[2])]
    /\ UNCHANGED <<clock, tz_skew, disk, save_pc, coord_store, coord>>

\* the scheduler calls store.finalize_due_slots(now)
FinalizeDueSlots(now_utc) ==
    /\ LET r == finalize_due_slots(store, clock, tz_skew, now_utc)
       IN  /\ store' = r.store
           /\ last' = [op |-> "finalize", now |-> now_utc, ret |-> r.ret,
                      again |-> last.op = "finalize" /\ last.now = now_utc]
    /\ UNCHANGED <<clock, tz_skew, disk, save_pc, coord_store, coord>>

\* time passes
Tick(c) ==
    /\ c > clock
    /\ clock' = c
    /\ last' = [op |-> "tick", now |-> 0, ret |-> 0, again |-> FALSE]
    /\ UNCHANGED <<store, tz_skew, disk, save_pc, coord_store, coord>>

Next ==
    \/ \E ts \in SampleTimes, k \in KwhInputs : AddSample(ts, k)
    \/ \E s \in PriceStarts, ch \in PriceChoices : SetPriceSlot(s, ch)
    \/ \E n \in NowValues : FinalizeDueSlots(n)
    \/ \E c \in ClockValues : Tick(c)

Spec == Init /\ [][Next]_vars

----------------------------------------------------------------------------
(* Persistence: the remaining mutators and the periodic flush *)

\* store.set_last_api_success(dt_util.utcnow())
SetLastApiSuccess ==
    /\ store' = set_last_api_success(store, clock)
    /\ last' = [op |-> "set_last_api_success", now |-> 0, ret |-> 0, again |-> FALSE]
    /\ UNCHANGED <<clock, tz_skew, disk, save_pc, coord_store, coord>>

\* store.trim_price_slots(keep_days=7)
TrimPriceSlots ==
    /\ store' = trim_price_slots(store, clock, KEEP_DAYS_PRICES)
    /\ last' = [op |-> "trim_price_slots", now |-> 0, ret |-> 0, again |-> FALSE]
    /\ UNCHANGED <<clock, tz_skew, disk, save_pc, coord_store, coord>>

\* _flush_store: if store.dirty, async_save starts and suspends in
\* self._store.async_save(self._as_dict()), which holds references to the
\* store's collections
SaveBegin ==
    /\ save_pc = "idle"
    /\ store.dirty
    /\ save_pc' = "writing"
    /\ last' = [op |-> "save_begin", now |-> 0, ret |-> 0, again |-> FALSE]
    /\ UNCHANGED <<store, clock, tz_skew, disk, coord_store, coord>>

\* the durable write serializes the data while async_save is suspended
SaveWrite ==
    /\ save_pc = "writing"
    /\ disk' = as_dict(store)
    /\ save_pc' = "written"
    /\ last' = [op |-> "save_write", now |-> 0, ret |-> 0, again |-> FALSE]
    /\ UNCHANGED <<store, clock, tz_skew, coord_store, coord>>

\* async_save resumes: self.dirty = False
SaveEnd ==
    /\ save_pc = "written"
    /\ store' = [store EXCEPT !.dirty = FALSE]
    /\ save_pc' = "idle"
    /\ last' = [op |-> "save_end", now |-> 0, ret |-> 0, again |-> FALSE]
    /\ UNCHANGED <<clock, tz_skew, disk, coord_store, coord>>

\* inputs of the persistence specifications
PersistSampleTimes == {0, 20}
PersistKwhInputs == {Some(1), Some(3)}
PersistNowValues == {2 * SLOT_MINUTES + CUTOFF_MINUTES}
PersistPriceChoices ==
    { [dyn |-> Raw(MapOf({"electricity"}, 2)),
       base |-> Some(Raw(MapOf({"electricity"}, 3))),
       api |-> None] }

NextPersist ==
    \/ \E ts \in PersistSampleTimes, k \in PersistKwhInputs : AddSample(ts, k)
    \/ \E s \in PriceStarts, ch \in PersistPriceChoices : SetPriceSlot(s, ch)
    \/ \E n \in PersistNowValues : FinalizeDueSlots(n)
    \/ \E c \in ClockValues : Tick(c)
    \/ SetLastApiSuccess
    \/ TrimPriceSlots
    \/ SaveBegin
    \/ SaveWrite
    \/ SaveEnd

SpecPersist == Init /\ [][NextPersist]_vars

----------------------------------------------------------------------------
(* The coordinator and the store it builds for itself *)

\* _async_update_data, lazy init: the coordinator finds itself under
\* hass.data[DOMAIN][entry_id], builds TariffSaverStore(hass, entry_id) on
\* the same storage key and loads it
CoordLazyInit ==
    /\ IsNone(coord_store)
    /\ coord_store' = Some(async_load(disk))
    /\ last' = [op |-> "coord_lazy_init", now |-> 0, ret |-> 0, again |-> FALSE]
    /\ UNCHANGED <<store, clock, tz_skew, disk, save_pc, coord>>

\* _async_update_data with the store bound, as the daily trigger or the
\* first refresh runs it; the coordinator keeps the value returned unless
\* the call raised.  ret: the answers of the API, how the call ended, the
\* API calls made, the parsed active curve, the value returned
CoordRefresh(fetch) ==
    /\ ~IsNone(coord_store)
    /\ LET r == async_update_data(coord, Val(coord_store), clock,
                                  local_offset(tz_skew), fetch)
       IN  /\ coord' = r.coord
           /\ coord_store' = Some(r.store)
           /\ disk' = IF IsNone(r.blob) THEN disk ELSE Val(r.blob)
           /\ last' = [op |-> "coord_refresh", now |-> clock,
                       ret |-> [fetch |-> fetch, outcome |-> r.outcome,
                                api_calls |-> r.api_calls, active |-> r.active,
                                data |-> r.data],
                       again |-> FALSE]
    /\ UNCHANGED <<store, clock, tz_skew, save_pc>>

\* a raw price item: its start_timestamp and its parsed components
RawItem(ts, comps) == [start_timestamp |-> ts, comps |-> comps]

\* the API answers with one slot at instant 0: priced 2, or priced 0
TwoStoreFetches ==
    { [link |-> TRUE, baseline |-> None,
       active |-> Some(<< RawItem(<<0, 0>>, MapOf({"electricity"}, n)) >>)] :
          n \in {0, 2} }

NextTwoStores ==
    \/ \E ts \in PersistSampleTimes, k \in PersistKwhInputs : AddSample(ts, k)
    \/ \E n \in PersistNowValues : FinalizeDueSlots(n)
    \/ \E c \in ClockValues : Tick(c)
    \/ SaveBegin
    \/ SaveWrite
    \/ SaveEnd
    \/ CoordLazyInit
    \/ \E f \in TwoStoreFetches : CoordRefresh(f)

SpecTwoStores == Init /\ [][NextTwoStores]_vars

----------------------------------------------------------------------------
(* The coordinator's daily refresh against the answers of the tariff API *)

\* public mode with and without a baseline tariff; myEKZ mode with and
\* without its linking inputs
CoordConfigs ==
    { PublicConfig,
      [mode |-> "public", ems |-> FALSE, baseline_tariff_name |-> FALSE],
      [mode |-> "myekz", ems |-> TRUE, baseline_tariff_name |-> FALSE],
      [mode |-> "myekz", ems |-> FALSE, baseline_tariff_name |-> FALSE] }

InitCoord ==
    /\ store = NewStore
    /\ clock = InitClock
    /\ tz_skew \in TzSkews
    /\ last = [op |-> "init", now |-> 0, ret |-> 0, again |-> FALSE]
    /\ disk = as_dict(NewStore)
    /\ save_pc = "idle"
    /\ coord_store = None
    /\ coord \in {NewCoordinator(c) : c \in CoordConfigs}

\* answers to fetch_prices(tariff_name): an error; no item; an item whose
\* start_timestamp does not parse; a slot priced 0; slots at instants 0 and
\* 15 priced 2 and 3, the second stamped in UTC+1; a slot priced 0 and a
\* slot priced 2
ActiveAnswers ==
    { None,
      Some(<< >>),
      Some(<< RawItem(<< >>, MapOf({"electricity"}, 2)) >>),
      Some(<< RawItem(<<0, 0>>, MapOf({"electricity"}, 0)) >>),
      Some(<< RawItem(<<0, 0>>, MapOf({"electricity"}, 2)),
              RawItem(<<SLOT_MINUTES + 60, 60>>, MapOf({"grid", "metering"}, 1)
                                                   @@ MapOf({"regional_fees"}, 1)) >>),
      Some(<< RawItem(<<0, 0>>, MapOf({"electricity"}, 0)),
              RawItem(<<SLOT_MINUTES, 0>>, MapOf({"electricity"}, 2)) >>) }

\* answers to fetch_prices(baseline_tariff_name): an error; a slot at 0
BaselineAnswers ==
    { None, Some(<< RawItem(<<0, 0>>, MapOf({"electricity"}, 4)) >>) }

CoordFetches ==
    { [link |-> l, active |-> a, baseline |-> b] :
          l \in BOOLEAN, a \in ActiveAnswers, b \in BaselineAnswers }

\* 00:15, 23:30 (the next local date in UTC+1) and 00:15 of the next day
CoordClocks == {InitClock, MinutesPerDay - 30, MinutesPerDay + InitClock}

NextCoord ==
    \/ CoordLazyInit
    \/ \E f \in CoordFetches : CoordRefresh(f)
    \/ \E c \in CoordClocks : Tick(c)

SpecCoord == InitCoord /\ [][NextCoord]_vars

----------------------------------------------------------------------------
(* The price table of a store that was loaded from a stored blob *)

\* one stored price entry
StoredEntry ==
    [dyn |-> MapOf({"electricity"}, 2), base |-> None, api_integrated |-> None]

\* price tables found in the blob: none; an entry for instant 0 keyed in UTC;
\* the same keyed as written by a UTC+1 clock; an entry for instant 30 keyed
\* as written by a UTC-1 clock
StoredPriceTables ==
    { [k \in {} |-> price_item(StoredEntry)],
      [k \in {<<0, 0>>} |-> price_item(StoredEntry)],
      [k \in {<<60, 60>>} |-> price_item(StoredEntry)],
      [k \in {<<-30, -60>>} |-> price_item(StoredEntry)] }

StoredBlobs ==
    { [as_dict(NewStore) EXCEPT !.price_slots = t] : t \in StoredPriceTables }

\* after async_setup_entry built the store and loaded a stored blob
InitLoaded ==
    /\ disk \in StoredBlobs
    /\ store = async_load(disk)
    /\ clock = InitClock
    /\ tz_skew \in TzSkews
    /\ last = [op |-> "init", now |-> 0, ret |-> 0, again |-> FALSE]
    /\ save_pc = "idle"
    /\ coord_store = None
    /\ coord = NewCoordinator(PublicConfig)

\* prices are published for instants 0 and 30, given in UTC or in UTC+1
PriceTableStarts ==
    { utc_datetime(0), [wall |-> 60, off |-> 60],
      utc_datetime(2 * SLOT_MINUTES), [wall |-> 2 * SLOT_MINUTES + 60, off |-> 60] }
\* the instants the clock is observed at: the start, and 15 minutes past
\* the price retention window
PriceTableClocks == {InitClock, InitClock + KEEP_DAYS_PRICES * MinutesPerDay}

NextPrices ==
    \/ \E s \in PriceTableStarts, ch \in PriceChoices : SetPriceSlot(s, ch)
    \/ TrimPriceSlots
    \/ \E c \in PriceTableClocks : Tick(c)

SpecPrices == InitLoaded /\ [][NextPrices]_vars

----------------------------------------------------------------------------
(* Period totals over a loaded list of booked records *)

\* the instant of minute n of the UTC day y-m-day
At(y, m, day, n) == civil_midnight(y, m, day, 0).wall + n

\* Monday 1970-01-05 00:00 UTC, and Friday 1971-01-01 00:00 UTC
WeekBoundary == At(1970, 1, 5, 0)
YearBoundary == At(1971, 1, 1, 0)

\* the record of a priced slot; n tells the records apart
StoredRecord(start, n) ==
    [start |-> start, kwh |-> n, status |-> "ok",
     dyn |-> Merge(MapOf({"electricity"}, 2 * n), MapOf({"grid"}, n)),
     base |-> MapOf({"electricity"}, 3 * n),
     sav |-> Merge(MapOf({"electricity"}, n), MapOf({"grid"}, -n))]

\* records at midnight and at 23:45 of the day before, in UTC and in UTC+1
AroundBoundary(b, n) ==
    << StoredRecord(b - 60 - SLOT_MINUTES, n), StoredRecord(b - 60, 2 * n),
       StoredRecord(b - SLOT_MINUTES, 4 * n), StoredRecord(b, 8 * n) >>

StoredBookedLists ==
    { << >>,
      AroundBoundary(WeekBoundary, 1),
      AroundBoundary(YearBoundary, 16),
      AroundBoundary(WeekBoundary, 1) \o AroundBoundary(YearBoundary, 16) }

RollupBlobs ==
    { [as_dict(NewStore) EXCEPT !.booked = Some(MapSeq(booked_item, b))] :
          b \in StoredBookedLists }

InitRollup ==
    /\ disk \in RollupBlobs
    /\ store = async_load(disk)
    /\ clock = InitClock
    /\ tz_skew \in TzSkews
    /\ last = [op |-> "init", now |-> 0, ret |-> 0, again |-> FALSE]
    /\ save_pc = "idle"
    /\ coord_store = None
    /\ coord = NewCoordinator(PublicConfig)

Periods == {"today", "week", "month", "year"}

\* a sensor calls store.compute_period_breakdown(period);
\* ret: the period, its bounds and the totals returned
ComputePeriodBreakdown(period) ==
    /\ LET now == now_local(clock, local_offset(tz_skew))
           pb == period_bounds(now, period)
       IN  last' = [op |-> "compute_period_breakdown", now |-> clock,
                    ret |-> [period |-> period, start |-> pb[1], end |-> pb[2],
                             out |-> compute_period_breakdown(store, now, period)],
                    again |-> FALSE]
    /\ UNCHANGED <<store, clock, tz_skew, disk, save_pc, coord_store, coord>>

\* the instants the clock is observed at: around the week boundary, at the
\* end of January, around the year boundary, on a leap day, at the end of
\* a leap year
RollupClocks ==
    { WeekBoundary - 30, WeekBoundary, WeekBoundary + 30,
      At(1970, 1, 31, 12 * 60),
      YearBoundary - 30, YearBoundary, YearBoundary + 30,
      At(1972, 2, 29, 10 * 60), At(1972, 12, 31, 23 * 60 + 30) }

NextRollup ==
    \/ \E p \in Periods : ComputePeriodBreakdown(p)
    \/ \E c \in RollupClocks : Tick(c)

SpecRollup == InitRollup /\ [][NextRollup]_vars

----------------------------------------------------------------------------
(* Sums of component maps by a caller of the store's helper *)

\* component names a tariff carries; "metering" is never in a map below
MapComponents == {"electricity", "grid", "feed_in", "integrated"}

\* component maps: any subset of the names, each with None or a price
ComponentMaps ==
    UNION { [S -> {None, Some(1), Some(2)}] : S \in SUBSET MapComponents }

\* lists of component names, none repeated
ComponentLists ==
    { IMPORT_ALLIN_COMPONENTS,
      << >>,
      <<"grid">>,
      <<"grid", "electricity">>,
      <<"feed_in", "integrated">>,
      <<"integrated", "metering", "electricity">> }

\* a caller evaluates TariffSaverStore.sum_components(m, components);
\* ret: the arguments and the value returned
SumComponents(m, components) ==
    /\ last' = [op |-> "sum_components", now |-> clock,
                ret |-> [m |-> m, components |-> components,
                         out |-> sum_components(m, components)],
                again |-> FALSE]
    /\ UNCHANGED <<store, clock, tz_skew, disk, save_pc, coord_store, coord>>

NextSum ==
    \E m \in ComponentMaps, components \in ComponentLists : SumComponents(m, components)

SpecSum == Init /\ [][NextSum]_vars

----------------------------------------------------------------------------
(* Blobs of older schemas, their migration and the load that follows *)

JunkPrice == [shape |-> "junk", dyn |-> Absent, base |-> Absent, api_integrated |-> Absent]
ScalarPrice(dyn, base) ==
    [shape |-> "dict", dyn |-> dyn, base |-> base, api_integrated |-> Absent]

\* price tables: none; scalar prices with and without baseline, an entry
\* whose "dyn" is a text, an entry that is no dict; an entry with components
LegacyPriceTables ==
    { [k \in {} |-> JunkPrice],
      [k \in {<<0, 0>>, <<15, 0>>, <<30, 0>>, <<45, 0>>} |->
          IF k = <<0, 0>> THEN ScalarPrice(Num(2), Num(3))
          ELSE IF k = <<15, 0>> THEN ScalarPrice(Num(5), Absent)
          ELSE IF k = <<30, 0>> THEN ScalarPrice(Text, Num(3))
          ELSE JunkPrice],
      [k \in {<<0, 0>>} |-> price_item(StoredEntry)] }

PairSample(iso, kwh) == [shape |-> "pair", ts |-> Absent, iso |-> iso, kwh |-> kwh]
DictSample(ts, kwh) == [shape |-> "dict", ts |-> ts, iso |-> << >>, kwh |-> kwh]
JunkSample == [shape |-> "junk", ts |-> Absent, iso |-> << >>, kwh |-> Absent]

\* sample lists: none; [iso, kwh] pairs, among them an unparseable
\* timestamp, a timestamp written with offset +01:00, a value that is no
\* number and an item of another type; {"ts", "kwh"} dicts, one with a "ts"
\* that is no number
LegacySampleLists ==
    { << >>,
      << PairSample(<<0, 0>>, Num(1)), PairSample(<< >>, Num(2)),
         PairSample(<<75, 60>>, Num(3)), PairSample(<<20, 0>>, Text), JunkSample >>,
      << DictSample(Num(0), Num(1)), DictSample(Text, Num(2)),
         DictSample(Num(20), Num(3)) >> }

\* a booked record / payload with scalar costs
ScalarBooked(start, kwh, dyn_chf, base_chf, savings_chf, status) ==
    [shape |-> "dict", has_start |-> TRUE, start |-> start,
     kwh |-> kwh, status |-> status,
     dyn |-> Absent, base |-> Absent, sav |-> Absent,
     dyn_chf |-> dyn_chf, base_chf |-> base_chf, savings_chf |-> savings_chf]
JunkBooked ==
    [ScalarBooked(<< >>, Absent, Absent, Absent, Absent, None) EXCEPT
        !.shape = "junk", !.has_start = FALSE]
NoStartBooked ==
    [ScalarBooked(<< >>, Num(1), Num(4), Num(6), Num(2), Some("ok")) EXCEPT
        !.has_start = FALSE]

\* the middle schema: a list of records with scalar costs
LegacyBookedLists ==
    { \* well-formed records, an item that is no dict, a record without start
      << ScalarBooked(<<0, 0>>, Num(1), Num(4), Num(6), Num(2), Some("ok")),
         JunkBooked, NoStartBooked,
         ScalarBooked(<<15, 0>>, Num(2), Num(5), Absent, Absent, Some("ok")) >>,
      \* a record whose dyn_chf is a text
      << ScalarBooked(<<0, 0>>, Num(1), Num(4), Num(6), Num(2), Some("ok")),
         ScalarBooked(<<15, 0>>, Num(2), Text, Num(6), Absent, Some("ok")) >>,
      \* records of the current schema
      MapSeq(booked_item, << StoredRecord(0, 1), StoredRecord(SLOT_MINUTES, 2) >>) }

\* the oldest schema: a dict of payloads with scalar costs, keyed by ISO string
LegacyBookedSlots ==
    { \* well-formed payloads, with and without status, a payload that is no dict
      [k \in {<<15, 0>>, <<30, 0>>, <<45, 0>>} |->
          IF k = <<15, 0>>
          THEN ScalarBooked(<< >>, Num(1), Num(4), Num(6), Num(2), None)
          ELSE IF k = <<30, 0>>
          THEN ScalarBooked(<< >>, Num(2), Absent, Absent, Absent, None)
          ELSE JunkBooked],
      \* a payload whose base_chf is a text
      [k \in {<<15, 0>>, <<30, 0>>} |->
          IF k = <<15, 0>>
          THEN ScalarBooked(<< >>, Num(1), Num(4), Num(6), Num(2), Some("ok"))
          ELSE ScalarBooked(<< >>, Num(2), Num(5), Text, Absent, Some("ok"))] }

\* <<booked, booked_slots>> of a blob: neither, a list, or a dict
LegacyBookedForms ==
    { <<None, None>> }
        \cup { <<Some(l), None>> : l \in LegacyBookedLists }
        \cup { <<None, Some(d)>> : d \in LegacyBookedSlots }

\* the last-fetch timestamp: none, or 00:00Z written with offset +01:00
LegacyLastApi == { None, Some(<<60, 60>>) }

LegacyBlobs ==
    { [price_slots |-> p, samples |-> smp, booked |-> b[1], booked_slots |-> b[2],
       last_api_success_utc |-> t] :
          p \in LegacyPriceTables, smp \in LegacySampleLists,
          b \in LegacyBookedForms, t \in LegacyLastApi }

\* a blob of an older schema is on disk; the store is built, not yet loaded
InitLegacy ==
    /\ disk \in LegacyBlobs
    /\ store = NewStore
    /\ clock = InitClock
    /\ tz_skew \in TzSkews
    /\ last = [op |-> "init", now |-> 0, ret |-> 0, again |-> FALSE]
    /\ save_pc = "idle"
    /\ coord_store = None
    /\ coord = NewCoordinator(PublicConfig)

\* the version numbers a stored blob is migrated from
OldVersions == {2, 3, STORAGE_VERSION}

\* Store.async_load finds old_version on disk, calls _async_migrate and keeps
\* what it returns; now: old_version; ret: 1 if the migration raised;
\* again: the blob was the output of a migration already
Migrate(old_version) ==
    /\ LET m == async_migrate(old_version, disk)
       IN  /\ disk' = IF m.raised THEN disk ELSE m.data
           /\ last' = [op |-> "migrate", now |-> old_version,
                       ret |-> IF m.raised THEN 1 ELSE 0,
                       again |-> last.op = "migrate" /\ last.ret = 0]
    /\ UNCHANGED <<store, clock, tz_skew, save_pc, coord_store, coord>>

\* TariffSaverStore.async_load takes the migrated data
LoadMigrated ==
    /\ last.op = "migrate"
    /\ last.ret = 0
    /\ store' = async_load(disk)
    /\ last' = [op |-> "load", now |-> 0, ret |-> 0, again |-> FALSE]
    /\ UNCHANGED <<clock, tz_skew, disk, save_pc, coord_store, coord>>

NextMigrate ==
    \/ \E v \in OldVersions : Migrate(v)
    \/ LoadMigrated

SpecMigrate == InitLegacy /\ [][NextMigrate]_vars

----------------------------------------------------------------------------
(* A store of the oldest schema is upgraded, then finalized *)

\* the payload the oldest finalizer wrote for a window: consumption and
\* scalar costs, no status
OldestPayload(n) == ScalarBooked(<< >>, Num(n), Num(4 * n), Num(6 * n), Num(2 * n), None)

\* booked_slots as the oldest finalizer keyed it, by the end of the window
\* (__init__.py books under slot_end): the windows [0, 15) and [15, 30),
\* keyed in UTC; the same keyed by a UTC+1 clock; the window [0, 15) alone
OldestBookedSlots ==
    { [k \in {<<15, 0>>, <<30, 0>>} |-> OldestPayload(IF k = <<15, 0>> THEN 1 ELSE 2)],
      [k \in {<<75, 60>>, <<90, 60>>} |-> OldestPayload(IF k = <<75, 60>> THEN 1 ELSE 2)],
      [k \in {<<15, 0>>} |-> OldestPayload(1)] }

\* readings as [iso, kwh] pairs at 0, 20, 35 and 50 minutes; the same
\* without the reading at 35
OldestSampleLists ==
    { << PairSample(<<0, 0>>, Num(1)), PairSample(<<20, 0>>, Num(2)),
         PairSample(<<35, 0>>, Num(4)), PairSample(<<50, 0>>, Num(7)) >>,
      << PairSample(<<0, 0>>, Num(1)), PairSample(<<20, 0>>, Num(2)),
         PairSample(<<50, 0>>, Num(7)) >> }

OldestBlobs ==
    { [price_slots |-> p, samples |-> smp, booked |-> None, booked_slots |-> Some(b),
       last_api_success_utc |-> None] :
          p \in { [k \in {} |-> JunkPrice],
                  [k \in {<<30, 0>>, <<45, 0>>} |-> ScalarPrice(Num(2), Num(3))] },
          smp \in OldestSampleLists, b \in OldestBookedSlots }

InitOldest ==
    /\ disk \in OldestBlobs
    /\ store = NewStore
    /\ clock = InitClock
    /\ tz_skew \in TzSkews
    /\ last = [op |-> "init", now |-> 0, ret |-> 0, again |-> FALSE]
    /\ save_pc = "idle"
    /\ coord_store = None
    /\ coord = NewCoordinator(PublicConfig)

\* the instants the keys of booked_slots denote, in ascending order
RECURSIVE AscendingSeq(_)
AscendingSeq(S) ==
    IF S = {} THEN << >>
    ELSE LET m == CHOOSE x \in S : \A y \in S : x <= y
         IN  << m >> \o AscendingSeq(S \ {m})
LegacyEnds(blob) ==
    AscendingSeq({as_utc(Val(parse_datetime(k))).wall : k \in DOMAIN Val(blob.booked_slots)})

\* async_setup_entry awaits store.async_load() on a blob of version 2: the
\* blob is migrated, written back and taken over by the store;
\* now: the version found; ret: the window ends the old records were keyed by
LoadOldest ==
    /\ last.op = "init"
    /\ LET m == async_migrate(2, disk)
       IN  /\ ~m.raised
           /\ disk' = m.data
           /\ store' = async_load(m.data)
    /\ last' = [op |-> "load_oldest", now |-> 2, ret |-> LegacyEnds(disk), again |-> FALSE]
    /\ UNCHANGED <<clock, tz_skew, save_pc, coord_store, coord>>

\* finalize calls one minute after the boundaries at 45, 60 and 75 minutes
OldestNowValues == {k * SLOT_MINUTES + CUTOFF_MINUTES : k \in {3, 4, 5}}

NextOldest ==
    \/ LoadOldest
    \/ /\ last.op # "init"
       /\ \E n \in OldestNowValues : FinalizeDueSlots(n)
    \/ /\ last.op # "init"
       /\ \E c \in ClockValues : Tick(c)

SpecOldest == InitOldest /\ [][NextOldest]_vars

----------------------------------------------------------------------------
(* A meter read in order: each sample later than what is stored and booked *)

\* readings at the start of slot 0, inside slot 0, inside slot 1, inside
\* slot 2; the meter only moves forward here
OrderedSampleTimes == {0, 5, SLOT_MINUTES + 5, 2 * SLOT_MINUTES + 5}
OrderedKwhInputs == {Some(1), Some(3), Some(4)}
OrderedNowValues == {k * SLOT_MINUTES + CUTOFF_MINUTES : k \in {1, 2, 3}}
OrderedClockValues == {InitClock + KEEP_DAYS_SAMPLES * MinutesPerDay}

\* add_sample with a timestamp later than every stored sample and later
\* than the end of every booked slot
AddSampleLater(ts, kwh_raw) ==
    /\ Len(store.samples) < MaxSamples + 1
    /\ \A i \in 1..Len(store.samples) : store.samples[i].ts < ts
    /\ \A j \in 1..Len(store.booked) : store.booked[j].start + SLOT_MINUTES < ts
    /\ LET r == add_sample(store, clock, ts, kwh_raw)
       IN  /\ store' = r.store
           /\ last' = [op |-> "add_sample", now |-> 0, ret |-> IF r.ret THEN 1 ELSE 0,
                      again |-> FALSE]
    /\ UNCHANGED <<clock, tz_skew, disk, save_pc, coord_store, coord>>

NextOrdered ==
    \/ \E ts \in OrderedSampleTimes, k \in OrderedKwhInputs : AddSampleLater(ts, k)
    \/ \E s \in PriceStarts, ch \in PersistPriceChoices : SetPriceSlot(s, ch)
    \/ \E n \in OrderedNowValues : FinalizeDueSlots(n)
    \/ \E c \in OrderedClockValues : Tick(c)

SpecOrdered == Init /\ [][NextOrdered]_vars

----------------------------------------------------------------------------
(* The finalizer invoked again and again as time passes *)

\* the scheduler calls store.finalize_due_slots(dt_util.utcnow())
FinalizeNow == FinalizeDueSlots(clock)

\* the instants the clock is observed at: one minute past a slot boundary
ProgressClocks == {InitClock + k * SLOT_MINUTES + CUTOFF_MINUTES : k \in 0..2}
\* samples arrive in the first slot only
ProgressSampleTimes == {0, 5}

NextProgress ==
    \/ \E ts \in ProgressSampleTimes, k \in PersistKwhInputs : AddSample(ts, k)
    \/ \E c \in ProgressClocks : Tick(c)
    \/ FinalizeNow

\* time keeps passing and the finalizer keeps being invoked
SpecProgress ==
    /\ Init
    /\ [][NextProgress]_vars
    /\ WF_vars(\E c \in ProgressClocks : Tick(c))
    /\ WF_vars(FinalizeNow)

----------------------------------------------------------------------------
(* Vocabulary of the properties *)

\* the price-table key of the slot starting at instant s
PriceKey(s) == isoformat(utc_datetime(s))
BookedStarts(b) == {b[i].start : i \in 1..Len(b)}
NoDuplicateStarts(b) == \A i, j \in 1..Len(b) : i # j => b[i].start # b[j].start
Consecutive(b) == \A i \in 1..(Len(b) - 1) : b[i + 1].start = b[i].start + SLOT_MINUTES

\* the 15-minute grid slots s with lo <= s < hi, lo on the grid
Grid(lo, hi) == {s \in lo..(hi - 1) : (s - lo) % SLOT_MINUTES = 0}

Floor15(t) == t - (t % SLOT_MINUTES)
MaxOf(a, b) == IF a >= b THEN a ELSE b
MinOfSet(S) == CHOOSE x \in S : \A y \in S : x <= y

\* the step is a call of finalize_due_slots
FinalizeStep == last'.op = "finalize"

\* the first slot of a finalize call: the first record's start, or - nothing
\* booked yet - the aligned start of the earliest sample point, at the
\* instant the finalizer reconstructs for it
FirstSlot ==
    IF store.booked # << >>
    THEN store.booked[1].start
    ELSE Floor15(MinOfSet({store.samples[i].ts + tz_skew : i \in 1..Len(store.samples)}))

\* where the booked run ends after the call: floor15(now - 1 min), or where
\* it ended already
RunEnd ==
    IF store.booked # << >>
    THEN MaxOf(store.booked[Len(store.booked)].start + SLOT_MINUTES,
               Floor15(last'.now - CUTOFF_MINUTES))
    ELSE Floor15(last'.now - CUTOFF_MINUTES)

RetentionCutoff == clock - KEEP_DAYS_BOOKED * MinutesPerDay

\* the records of booked' this step appended
IsNewRecord(j) == store'.booked[j].start \notin BookedStarts(store.booked)

----------------------------------------------------------------------------
(* C1 *)

----------------------------------------------------------------------------
(* C2 *)

\* C2: a finalize_due_slots call directly after one with the same now returns
\* 0 and leaves the booked list unchanged.
C2_SecondCallBooksNothing ==
    [][ (FinalizeStep /\ last'.again) =>
            (last'.ret = 0 /\ store'.booked = store.booked) ]_vars

----------------------------------------------------------------------------
(* C3 *)

\* C3: a step never changes a booked record: every record of booked is found
\* unchanged in booked', or booked' has no record for its slot_start, and that
\* only in a finalize step and only for a record older than the retention.
C3_BookedImmutable ==
    [][ \A i \in 1..Len(store.booked) :
            /\ \A j \in 1..Len(store'.booked) :
                   store'.booked[j].start = store.booked[i].start
                       => store'.booked[j] = store.booked[i]
            /\ \/ store.booked[i].start \in BookedStarts(store'.booked)
               \/ FinalizeStep /\ store.booked[i].start < RetentionCutoff ]_vars

\* C3 witness: a record booked unpriced by an earlier call is still unpriced
\* after its price was set and a later finalize call booked the next slot
C3_Witness ==
    /\ last.op = "finalize"
    /\ last.ret = 1
    /\ Len(store.booked) >= 2
    /\ LET b == store.booked[1]
       IN  /\ b.status = "unpriced"
           /\ b.kwh > 0
           /\ DOMAIN b.dyn = {}
           /\ PriceKey(b.start) \in DOMAIN store.price_slots
           /\ \E c \in DOMAIN store.price_slots[PriceKey(b.start)].dyn :
                  store.price_slots[PriceKey(b.start)].dyn[c] # 0

----------------------------------------------------------------------------
(* C4 *)

\* C4: the booked list is in strictly increasing slot_start order in every
\* state, and a finalize call that books something on a non-empty list
\* continues one slot width after the start of its last record: the new
\* records are the next last'.ret grid slots, and the record behind the old
\* last record starts one slot width after it.
C4_OrderedContinuation ==
    [][ /\ \A i, j \in 1..Len(store'.booked) :
               i < j => store'.booked[i].start < store'.booked[j].start
        /\ (FinalizeStep /\ last'.ret > 0 /\ store.booked # << >>) =>
               LET lastRec == store.booked[Len(store.booked)]
               IN  /\ \A j \in 1..Len(store'.booked) :
                          IsNewRecord(j) =>
                              \E k \in 1..last'.ret :
                                  store'.booked[j].start = lastRec.start + k * SLOT_MINUTES
                   /\ \A j \in 1..Len(store'.booked) :
                          store'.booked[j] = lastRec =>
                              /\ j < Len(store'.booked)
                              /\ store'.booked[j + 1].start = lastRec.start + SLOT_MINUTES
       ]_vars

\* C4 witness: a call appended to a non-empty booked list
C4_Witness ==
    /\ last.op = "finalize"
    /\ last.ret > 0
    /\ Len(store.booked) > last.ret

----------------------------------------------------------------------------
(* C8 *)

\* the stored samples at or before instant t, and the most recent of them
SamplesUpTo(t) == {i \in 1..Len(store.samples) : store.samples[i].ts <= t}
LastSampleUpTo(t) ==
    CHOOSE i \in SamplesUpTo(t) :
        \A k \in SamplesUpTo(t) :
            \/ store.samples[k].ts < store.samples[i].ts
            \/ store.samples[k].ts = store.samples[i].ts /\ k <= i

\* C8: every slot [c, c+15) a finalize call books with status ok or unpriced
\* has consumption (last sample with timestamp <= c+15) - (last sample with
\* timestamp <= c), timestamps being the instants the samples were added with.
C8_DeltaFromPrecedingSamples ==
    [][ FinalizeStep =>
            \A j \in 1..Len(store'.booked) :
                LET b == store'.booked[j]
                IN  (IsNewRecord(j) /\ b.status \in {"ok", "unpriced"}) =>
                        /\ SamplesUpTo(b.start) # {}
                        /\ b.kwh = store.samples[LastSampleUpTo(b.start + SLOT_MINUTES)].kwh
                                   - store.samples[LastSampleUpTo(b.start)].kwh ]_vars

----------------------------------------------------------------------------
(* C9 *)

\* the baseline prices of a price entry, empty when it has none
BasePricesOf(entry) == IF IsNone(entry.base) THEN EmptyMap ELSE Val(entry.base)

\* C9: a slot booked (ok or unpriced) while its price entry has dynamic
\* components has dyn = consumption * price for exactly the nonzero dynamic
\* prices, base = consumption * price for exactly the nonzero baseline
\* prices, and sav = base - dyn on exactly the components of both.
C9_CostsAndSavings ==
    [][ FinalizeStep =>
            \A j \in 1..Len(store'.booked) :
                LET b == store'.booked[j]
                IN  ( /\ IsNewRecord(j)
                      /\ b.status \in {"ok", "unpriced"}
                      /\ PriceKey(b.start) \in DOMAIN store.price_slots
                      /\ DOMAIN store.price_slots[PriceKey(b.start)].dyn # {} ) =>
                        LET dynP == store.price_slots[PriceKey(b.start)].dyn
                            baseP == BasePricesOf(store.price_slots[PriceKey(b.start)])
                        IN  /\ DOMAIN b.dyn = {c \in DOMAIN dynP : dynP[c] # 0}
                            /\ \A c \in DOMAIN b.dyn : b.dyn[c] = b.kwh * dynP[c]
                            /\ DOMAIN b.base = {c \in DOMAIN baseP : baseP[c] # 0}
                            /\ \A c \in DOMAIN b.base : b.base[c] = b.kwh * baseP[c]
                            /\ DOMAIN b.sav = (DOMAIN b.dyn) \cap (DOMAIN b.base)
                            /\ \A c \in DOMAIN b.sav : b.sav[c] = b.base[c] - b.dyn[c]
      ]_vars

\* C9 witness: a slot with consumption 2 booked ok whose baseline has a
\* component (grid) the dynamic cost lacks: it is in base, not in dyn or sav
C9_Witness ==
    /\ last.op = "finalize"
    /\ last.ret > 0
    /\ \E i \in 1..Len(store.booked) :
           LET b == store.booked[i]
           IN  /\ b.status = "ok"
               /\ b.kwh = 2
               /\ DOMAIN b.dyn = {"electricity"}
               /\ DOMAIN b.base = {"electricity", "grid"}
               /\ DOMAIN b.sav = {"electricity"}
               /\ b.sav["electricity"] = 2

----------------------------------------------------------------------------
(* C10 *)

\* C10: a booked record whose status is unpriced, missing_samples or invalid
\* adds zero to every component of the dyn, base and sav totals: each value
\* of its three cost maps is zero.
C10_FailedSlotsCostNothing ==
    \A i \in 1..Len(store.booked) :
        LET b == store.booked[i]
        IN  b.status \in {"unpriced", "missing_samples", "invalid"} =>
                /\ \A c \in DOMAIN b.dyn : b.dyn[c] = 0
                /\ \A c \in DOMAIN b.base : b.base[c] = 0
                /\ \A c \in DOMAIN b.sav : b.sav[c] = 0

----------------------------------------------------------------------------
(* C5 *)

\* C5: a step that changes the persisted state leaves dirty = TRUE, and dirty
\* goes from TRUE to FALSE only when async_save resumes.
C5_DirtyContract ==
    [][ /\ as_dict(store') # as_dict(store) => store'.dirty
        /\ (store.dirty /\ ~store'.dirty) => last'.op = "save_end" ]_vars

\* C5 witness: finalize appended records to a saved, clean store and left it
\* dirty
C5_Witness ==
    /\ last.op = "finalize"
    /\ last.ret > 0
    /\ store.dirty
    /\ as_dict(store) # disk
    /\ disk.samples = as_dict(store).samples
    /\ Len(store.samples) >= 2

----------------------------------------------------------------------------
(* C6 *)

\* C6: whenever no save is in progress and dirty is FALSE, the persisted
\* state in memory equals the blob last written.
C6_CleanMeansSaved ==
    (save_pc = "idle" /\ ~store.dirty) => as_dict(store) = disk

----------------------------------------------------------------------------
(* C7 *)

\* C7: the install instance has one store: the store the coordinator writes
\* prices and the fetch timestamp to holds the state of the store that
\* ingests samples, finalizes and flushes.
C7_OneStorePerInstance ==
    ~IsNone(coord_store) => as_dict(Val(coord_store)) = as_dict(store)

----------------------------------------------------------------------------
(* Vocabulary of the finalizer's outcomes *)

\* the value of the most recent stored sample with timestamp <= t, or None;
\* timestamps are the instants the samples were added with
RawKwhAt(t) ==
    IF SamplesUpTo(t) = {} THEN None ELSE Some(store.samples[LastSampleUpTo(t)].kwh)

\* the record has zero consumption and empty cost maps
ZeroFields(b) ==
    /\ b.kwh = 0
    /\ DOMAIN b.dyn = {}
    /\ DOMAIN b.base = {}
    /\ DOMAIN b.sav = {}

\* the call went on to the slot after b, if that slot was due
WentOn(b) ==
    b.start + SLOT_MINUTES < Floor15(last'.now - CUTOFF_MINUTES)
        => (b.start + SLOT_MINUTES) \in BookedStarts(store'.booked)

----------------------------------------------------------------------------
(* C11 *)

\* C11: a slot a finalize call books for which the last sample at or before
\* the slot end is smaller than the last sample at or before the slot start
\* is booked invalid with consumption 0 and empty cost maps, and the call goes
\* on to the next slot.
C11_MeterResetInvalid ==
    [][ FinalizeStep =>
            \A j \in 1..Len(store'.booked) :
                LET b == store'.booked[j]
                    k0 == RawKwhAt(b.start)
                    k1 == RawKwhAt(b.start + SLOT_MINUTES)
                IN  ( /\ IsNewRecord(j)
                      /\ ~IsNone(k0)
                      /\ ~IsNone(k1)
                      /\ Val(k1) < Val(k0) ) =>
                        /\ b.status = "invalid"
                        /\ ZeroFields(b)
                        /\ WentOn(b) ]_vars

----------------------------------------------------------------------------
(* C12 *)

\* C12: a slot a finalize call books for which no sample exists at or before
\* its start, or none at or before its end, is booked missing_samples with
\* consumption 0 and empty cost maps, and the call goes on to the next slot.
C12_MissingSamples ==
    [][ FinalizeStep =>
            \A j \in 1..Len(store'.booked) :
                LET b == store'.booked[j]
                IN  ( /\ IsNewRecord(j)
                      /\ \/ IsNone(RawKwhAt(b.start))
                         \/ IsNone(RawKwhAt(b.start + SLOT_MINUTES)) ) =>
                        /\ b.status = "missing_samples"
                        /\ ZeroFields(b)
                        /\ WentOn(b) ]_vars

----------------------------------------------------------------------------
(* C13 *)

\* the price table has no dynamic component at exactly slot start s
NoDynamicPriceAt(s) ==
    \/ PriceKey(s) \notin DOMAIN store.price_slots
    \/ DOMAIN store.price_slots[PriceKey(s)].dyn = {}

\* C13: a slot a finalize call books whose delta (last sample at or before
\* the end minus last sample at or before the start) is non-negative and
\* whose slot_start has no price entry, or an entry without dynamic
\* components, is booked unpriced with consumption = delta and empty cost
\* maps.
C13_UnpricedKeepsDelta ==
    [][ FinalizeStep =>
            \A j \in 1..Len(store'.booked) :
                LET b == store'.booked[j]
                    k0 == RawKwhAt(b.start)
                    k1 == RawKwhAt(b.start + SLOT_MINUTES)
                IN  ( /\ IsNewRecord(j)
                      /\ ~IsNone(k0)
                      /\ ~IsNone(k1)
                      /\ Val(k1) >= Val(k0)
                      /\ NoDynamicPriceAt(b.start) ) =>
                        /\ b.status = "unpriced"
                        /\ b.kwh = Val(k1) - Val(k0)
                        /\ DOMAIN b.dyn = {}
                        /\ DOMAIN b.base = {}
                        /\ DOMAIN b.sav = {} ]_vars

----------------------------------------------------------------------------
(* C14 *)

\* the slot a finalize call starts from: one slot after the last booked
\* record, or - nothing booked - the aligned start of the earliest sample
\* point
CallCursor ==
    IF store.booked # << >>
    THEN store.booked[Len(store.booked)].start + SLOT_MINUTES
    ELSE Floor15(MinOfSet({store.samples[i].ts + tz_skew : i \in 1..Len(store.samples)}))

\* C14: every record a finalize_due_slots(now) call appends has
\* slot_start + 15 min <= now - 1 min: the records it leaves in the list, and
\* the last of the last'.ret slots it booked from its starting cursor.
C14_NeverBooksOpenSlot ==
    [][ FinalizeStep =>
            /\ \A j \in 1..Len(store'.booked) :
                   IsNewRecord(j) =>
                       store'.booked[j].start + SLOT_MINUTES <= last'.now - CUTOFF_MINUTES
            /\ last'.ret > 0 =>
                   CallCursor + last'.ret * SLOT_MINUTES <= last'.now - CUTOFF_MINUTES
      ]_vars

\* C14 witness: a call with now one minute past a slot boundary booked the
\* slot that ended on the boundary
C14_Witness ==
    /\ last.op = "finalize"
    /\ last.ret > 0
    /\ last.now = SLOT_MINUTES + CUTOFF_MINUTES
    /\ store.booked # << >>
    /\ store.booked[Len(store.booked)].start = 0

----------------------------------------------------------------------------
(* C16 *)

\* C16: a finalize_due_slots call that finds two samples returns the number
\* of grid slots from its starting cursor up to but excluding
\* floor15(now - 1 min) (0 when the cursor is at or past it), and these are
\* the records it appended: booked' holds the old records and one record per
\* such slot, less what the retention trimming of a booking call removed.
C16_ReturnsNumberAppended ==
    [][ (FinalizeStep /\ Len(store.samples) >= 2) =>
            LET due == Grid(CallCursor, Floor15(last'.now - CUTOFF_MINUTES))
            IN  /\ last'.ret = Cardinality(due)
                /\ Len(store'.booked) = Cardinality(BookedStarts(store'.booked))
                /\ BookedStarts(store'.booked) =
                      IF last'.ret = 0
                      THEN BookedStarts(store.booked)
                      ELSE {s \in BookedStarts(store.booked) \cup due :
                               s >= RetentionCutoff} ]_vars

\* C16 witness: one call appended two records to a non-empty list
C16_Witness ==
    /\ last.op = "finalize"
    /\ last.ret = 2
    /\ Len(store.booked) >= 3

----------------------------------------------------------------------------
(* C17 *)

\* C17: finalize_due_slots on a store with fewer than two samples returns 0
\* and leaves the store - samples, price table, booked list, fetch timestamp
\* and dirty flag - as it was.
C17_FewSamplesNoOp ==
    [][ (FinalizeStep /\ Len(store.samples) < 2) =>
            (last'.ret = 0 /\ store' = store) ]_vars

\* C17 witness: a call on a saved, clean store holding one sample and a
\* price entry left it clean
C17_Witness ==
    /\ last.op = "finalize"
    /\ last.ret = 0
    /\ Len(store.samples) = 1
    /\ DOMAIN store.price_slots # {}
    /\ ~store.dirty
    /\ save_pc = "idle"

----------------------------------------------------------------------------
(* C18 *)

\* ts is within the tolerance of the most recent stored sample
NearLastSample(ts) ==
    /\ store.samples # << >>
    /\ store.samples[Len(store.samples)].ts = ts

\* C18: add_sample with a value that is not numeric, or with a timestamp
\* within the tolerance of the most recent stored sample, returns false and
\* leaves the store - samples and dirty flag included - as it was.
C18_RejectedSampleNoOp ==
    [][ \A ts \in SampleTimes, k \in KwhInputs :
            (AddSample(ts, k) /\ (~IsNumeric(k) \/ NearLastSample(ts))) =>
                (last'.ret = 0 /\ store' = store) ]_vars

\* C18 witness: a sample was rejected by a store that holds samples
C18_Witness ==
    /\ last.op = "add_sample"
    /\ last.ret = 0
    /\ store.samples # << >>

----------------------------------------------------------------------------
(* C19 *)

\* C19: the stored sample list is ordered by timestamp and no two samples
\* have timestamps within the tolerance of each other.
C19_SamplesOrderedDistinct ==
    \A i, j \in 1..Len(store.samples) :
        i < j => store.samples[i].ts < store.samples[j].ts

----------------------------------------------------------------------------
(* C20 *)

\* C20: an add_sample call that returns true leaves the store dirty, leaves
\* no sample older than the 14-day retention window, and leaves the new
\* sample in the list.
C20_AcceptedSampleStored ==
    [][ \A ts \in SampleTimes, k \in KwhInputs :
            (AddSample(ts, k) /\ last'.ret = 1) =>
                /\ store'.dirty
                /\ \A i \in 1..Len(store'.samples) :
                       store'.samples[i].ts >= clock - KEEP_DAYS_SAMPLES * MinutesPerDay
                /\ \E i \in 1..Len(store'.samples) :
                       store'.samples[i] = [ts |-> ts, kwh |-> Val(k)] ]_vars

----------------------------------------------------------------------------
(* C15 *)

\* the grid slots that are due before the clock stops being observed
ProgressSlots == {k * SLOT_MINUTES : k \in -4..2}

\* every slot from the first booked one up to the last due one is booked
AllDueBooked ==
    /\ store.booked # << >>
    /\ \A s \in ProgressSlots :
           s >= store.booked[1].start => s \in BookedStarts(store.booked)

\* C15: with the finalizer invoked again and again at ever later instants, a
\* store holding two samples eventually has every grid slot from the starting
\* cursor onward booked once it is due, though no further sample or price
\* arrives; and no slot is booked twice.
C15_ForwardProgress ==
    /\ [] NoDuplicateStarts(store.booked)
    /\ (Len(store.samples) >= 2) ~> AllDueBooked

\* C15 witness: the slot two slots after the last sample is booked, with the
\* clock one minute past its end
C15_Witness ==
    /\ last.op = "finalize"
    /\ clock = 3 * SLOT_MINUTES + CUTOFF_MINUTES
    /\ Len(store.samples) = 2
    /\ \A i \in 1..Len(store.samples) : store.samples[i].ts < SLOT_MINUTES
    /\ (2 * SLOT_MINUTES) \in BookedStarts(store.booked)

----------------------------------------------------------------------------
(* C21 *)

\* the values of a map of numeric raw values
Plain(m) == [c \in DOMAIN m |-> Val(m[c])]

\* what a lookup returns for the prices given by one call
Published(ch) ==
    << Some(Plain(ch.dyn)),
       IF IsNone(ch.base) THEN None ELSE Some(Plain(Val(ch.base))),
       ch.api >>

\* C21: after set_price_slot(s, ...) a lookup at s, written in any time zone,
\* returns exactly the components, baseline and integrated total of that
\* call, whatever the table held for s before
C21_LastWriteWins ==
    [][ \A s \in PriceStarts, ch \in PriceChoices :
            SetPriceSlot(s, ch) =>
                \A d \in PriceStarts :
                    (d.wall - d.off = s.wall - s.off) =>
                        get_price_components(store', d) = Published(ch) ]_vars

\* C21 witness: an entry with a baseline was overwritten by a call without
\* baseline and without integrated total
C21_Witness ==
    /\ last.op = "set_price_slot"
    /\ last.again
    /\ LET pc == get_price_components(store, utc_datetime(0))
       IN  /\ ~IsNone(pc[1])
           /\ IsNone(pc[2])
           /\ IsNone(pc[3])

----------------------------------------------------------------------------
(* C22 *)

NoPrice == <<None, None, None>>

\* slot starts nothing is ever published or stored for: the slot between the
\* two published ones, the slots around them, and the instants whose wall
\* clock reads like a published key in another zone
NeverPublished ==
    { utc_datetime(SLOT_MINUTES), utc_datetime(-SLOT_MINUTES),
      utc_datetime(3 * SLOT_MINUTES),
      [wall |-> 0, off |-> 60], [wall |-> 2 * SLOT_MINUTES, off |-> -60] }

\* C22: a lookup for a slot start that was never published returns
\* (None, None, None), and set_price_slot(s, ...) leaves the lookup of every
\* other instant as it was
C22_ExactKeyOnly ==
    [][ /\ \A q \in NeverPublished :
               get_price_components(store, q) = NoPrice
               /\ get_price_components(store', q) = NoPrice
        /\ \A s \in PriceTableStarts, ch \in PriceChoices :
               SetPriceSlot(s, ch) =>
                   \A q \in PriceTableStarts \cup NeverPublished :
                       (q.wall - q.off # s.wall - s.off) =>
                           get_price_components(store', q)
                               = get_price_components(store, q) ]_vars

\* C22 witness: prices are stored for instants 0 and 30, they differ, and
\* the slot between them has none
C22_Witness ==
    /\ last.op = "set_price_slot"
    /\ get_price_components(store, utc_datetime(0)) # NoPrice
    /\ get_price_components(store, utc_datetime(2 * SLOT_MINUTES)) # NoPrice
    /\ get_price_components(store, utc_datetime(0))
           # get_price_components(store, utc_datetime(2 * SLOT_MINUTES))
    /\ get_price_components(store, utc_datetime(SLOT_MINUTES)) = NoPrice

----------------------------------------------------------------------------
(* C23 *)

\* the instant an ISO key denotes
KeyInstant(k) == k[1] - k[2]

\* C23: trim_price_slots(keep_days) removes exactly the entries whose instant
\* is before now - keep_days, however their key is written, and marks the
\* store dirty iff it removed something
C23_TrimByInstant ==
    [][ TrimPriceSlots =>
            LET cutoff == clock - KEEP_DAYS_PRICES * MinutesPerDay
                keep == {k \in DOMAIN store.price_slots : KeyInstant(k) >= cutoff}
            IN  /\ DOMAIN store'.price_slots = keep
                /\ \A k \in keep : store'.price_slots[k] = store.price_slots[k]
                /\ store'.dirty = (store.dirty \/ keep # DOMAIN store.price_slots) ]_vars

----------------------------------------------------------------------------
(* C24 *)

\* the records of booked whose start lies in [lo, hi)
InRange(booked, lo, hi) ==
    {i \in 1..Len(booked) : lo <= booked[i].start /\ booked[i].start < hi}

RECURSIVE SumOf(_, _, _, _)
SumOf(booked, I, bucket, c) ==
    IF I = {} THEN 0
    ELSE LET i == CHOOSE x \in I : TRUE
         IN  (IF c \in DOMAIN booked[i][bucket] THEN booked[i][bucket][c] ELSE 0)
                 + SumOf(booked, I \ {i}, bucket, c)

\* the totals of the records I, per bucket and component
TotalsOf(booked, I) ==
    [bucket \in {"dyn", "base", "sav"} |->
        [c \in UNION {DOMAIN booked[i][bucket] : i \in I} |->
            SumOf(booked, I, bucket, c)]]

Computed == last.op = "compute_period_breakdown"

\* C24: compute_period_breakdown(p) returns, per bucket and component, the
\* sum over exactly the booked records whose start lies in [start, end) of
\* the period, and no record lies in this period and in the one after it
C24_HalfOpenTotals ==
    Computed =>
        LET lo == as_utc(last.ret.start).wall
            hi == as_utc(last.ret.end).wall
            I == InRange(store.booked, lo, hi)
            nxt == period_bounds(last.ret.end, last.ret.period)
            J == InRange(store.booked, as_utc(nxt[1]).wall, as_utc(nxt[2]).wall)
            T == TotalsOf(store.booked, I)
        IN  /\ last.ret.out.dyn = T["dyn"]
            /\ last.ret.out.base = T["base"]
            /\ last.ret.out.sav = T["sav"]
            /\ nxt[1] = last.ret.end
            /\ I \cap J = {}

\* C24 witness: today's totals with a record at exactly local midnight, which
\* is counted, and one at 23:45 local of the day before, which is not
C24_Witness ==
    /\ Computed
    /\ last.ret.period = "today"
    /\ LET lo == as_utc(last.ret.start).wall
           b == store.booked
       IN  \E i, j \in 1..Len(b) :
               /\ b[i].start = lo
               /\ b[j].start = lo - SLOT_MINUTES
               /\ InRange(b, lo, as_utc(last.ret.end).wall) = {i}
               /\ last.ret.out.dyn = b[i].dyn

----------------------------------------------------------------------------
(* C25 *)

IsMidnight(d) == d.wall % MinutesPerDay = 0

\* the days strictly between two datetimes' days, as datetimes
DaysBetween(a, b) ==
    { [wall |-> n * MinutesPerDay, off |-> a.off] : n \in (toordinal(a) + 1)..(toordinal(b) - 1) }

\* C25: the bounds of today, week, month and year satisfy start <= now < end;
\* start is the local midnight of the current day, of the Monday of the
\* current week, of the first of the current month, of January 1 of the
\* current year, and end is the start of the next such period
C25_PeriodBounds ==
    Computed =>
        LET now == now_local(clock, local_offset(tz_skew))
            start == last.ret.start
            end == last.ret.end
            p == last.ret.period
        IN  /\ start.off = now.off /\ end.off = now.off
            /\ start.wall <= now.wall /\ now.wall < end.wall
            /\ IsMidnight(start) /\ IsMidnight(end)
            /\ p = "today" => toordinal(end) = toordinal(start) + 1
            /\ p = "week" => /\ isoweekday(start) = 1
                             /\ toordinal(end) = toordinal(start) + 7
            /\ p = "month" => /\ day_of(start) = 1
                              /\ day_of(end) = 1
                              /\ \A d \in DaysBetween(start, end) : day_of(d) # 1
            /\ p = "year" => /\ day_of(start) = 1 /\ month_of(start) = 1
                             /\ day_of(end) = 1 /\ month_of(end) = 1
                             /\ \A d \in DaysBetween(start, end) :
                                    ~(day_of(d) = 1 /\ month_of(d) = 1)

\* C25 witness: the month around a local time in December ends on January 1
\* of the next year
C25_Witness ==
    /\ Computed
    /\ last.ret.period = "month"
    /\ month_of(now_local(clock, local_offset(tz_skew))) = 12
    /\ month_of(last.ret.end) = 1
    /\ year_of(last.ret.end) = year_of(last.ret.start) + 1

----------------------------------------------------------------------------
(* C26 *)

\* C26: migrating the output of a migration again, from the same old version
\* or from the current one, returns that output unchanged
C26_MigrationIdempotent ==
    [][ \A v \in OldVersions :
            ( /\ Migrate(v)
              /\ last.op = "migrate"
              /\ last.ret = 0
              /\ v \in {last.now, STORAGE_VERSION} ) =>
                /\ last'.ret = 0
                /\ disk' = disk ]_vars

\* C26 witness: a blob with scalar prices, pair samples and scalar booked
\* costs was migrated from an old version, and migrated again
C26_Witness ==
    /\ last.op = "migrate"
    /\ last.now < STORAGE_VERSION
    /\ last.again
    /\ last.ret = 0
    /\ <<0, 0>> \in DOMAIN disk.price_slots
    /\ disk.price_slots[<<0, 0>>].dyn = Dict(Electricity(2))
    /\ Len(disk.samples) = 2
    /\ Len(Val(disk.booked)) = 2
    /\ Val(disk.booked)[1].dyn = Dict(Electricity(4))

----------------------------------------------------------------------------
(* C27 *)

\* a legacy sample that can be parsed, and the instant it was taken at
WellFormedSample(it) ==
    \/ it.shape = "dict" /\ it.ts.kind = "num" /\ it.kwh.kind = "num"
    \/ it.shape = "pair" /\ Len(it.iso) = 2 /\ it.kwh.kind = "num"
SampleInstant(it) == IF it.shape = "pair" THEN it.iso[1] - it.iso[2] ELSE it.ts.n

\* a cost field that can be parsed: a number, or left out
ParseableCost(x) == x.kind \in {"num", "absent"}

\* a legacy booked record (list item or payload) that can be parsed
WellFormedBooked(b) ==
    /\ b.shape = "dict"
    /\ ParseableCost(b.kwh)
    /\ ParseableCost(b.dyn_chf) /\ ParseableCost(b.base_chf) /\ ParseableCost(b.savings_chf)

\* the legacy booked records of a blob, as <<start string, record>>
LegacyRecords(blob) ==
    IF ~IsNone(blob.booked)
    THEN { <<Val(blob.booked)[i].start, Val(blob.booked)[i]>> :
               i \in {x \in 1..Len(Val(blob.booked)) : Val(blob.booked)[x].has_start} }
    ELSE IF ~IsNone(blob.booked_slots)
    THEN { <<k, Val(blob.booked_slots)[k]>> : k \in DOMAIN Val(blob.booked_slots) }
    ELSE {}

\* the "booked" list of a blob, empty when the blob has none
BookedOf(blob) == IF IsNone(blob.booked) THEN << >> ELSE Val(blob.booked)

\* the step migrates a blob of an older schema
MigratesLegacy(v) == Migrate(v) /\ v < STORAGE_VERSION /\ last.op = "init"

\* C27: migration never raises on a partially malformed blob; the records
\* that cannot be parsed are skipped and the well-formed samples and booked
\* records are all migrated
C27_SkipAndContinue ==
    [][ \A v \in OldVersions :
            MigratesLegacy(v) =>
                /\ last'.ret = 0
                /\ Len(disk'.samples) = Len(SelectSeq(disk.samples, WellFormedSample))
                /\ \A r \in LegacyRecords(disk) :
                       WellFormedBooked(r[2]) <=>
                           \E j \in 1..Len(BookedOf(disk')) :
                               BookedOf(disk')[j].start = r[1] ]_vars

----------------------------------------------------------------------------
(* C28 *)

\* the map a legacy scalar cost is expected to become
CostMap(x) == Dict(Electricity(IF x.kind = "num" THEN x.n ELSE 0))

\* C28: migration turns a scalar price dyn / base into {electricity: value},
\* the scalar costs of a booked record into dyn / base / sav maps
\* {electricity: value}, and every well-formed legacy sample into one sample
\* with the same instant and the same kWh value
C28_ScalarsToElectricity ==
    [][ \A v \in OldVersions :
            MigratesLegacy(v) =>
                /\ \A k \in DOMAIN disk.price_slots :
                       LET old == disk.price_slots[k]
                       IN  (old.shape = "dict" /\ old.dyn.kind = "num") =>
                               /\ k \in DOMAIN disk'.price_slots
                               /\ disk'.price_slots[k].dyn = Dict(Electricity(old.dyn.n))
                               /\ disk'.price_slots[k].base =
                                      IF old.base.kind = "num"
                                      THEN Dict(Electricity(old.base.n)) ELSE Absent
                /\ \A r \in LegacyRecords(disk) :
                       (WellFormedBooked(r[2]) /\ r[2].dyn.kind = "absent") =>
                           \E j \in 1..Len(BookedOf(disk')) :
                               LET new == BookedOf(disk')[j]
                               IN  /\ new.start = r[1]
                                   /\ new.dyn = CostMap(r[2].dyn_chf)
                                   /\ new.base = CostMap(r[2].base_chf)
                                   /\ new.sav = CostMap(r[2].savings_chf)
                /\ LET W == SelectSeq(disk.samples, WellFormedSample)
                   IN  /\ Len(disk'.samples) = Len(W)
                       /\ \A i \in 1..Len(W) :
                              /\ disk'.samples[i].ts = Num(SampleInstant(W[i]))
                              /\ disk'.samples[i].kwh = W[i].kwh ]_vars

----------------------------------------------------------------------------
(* C29 *)

\* the store a restart builds from what a save of st writes
Restarted(st) == async_load(as_dict(st))

\* the cursor the next finalize call would start from
NextCursor(st) ==
    IF Len(st.samples) < 2 THEN None
    ELSE Some(start_cursor(st, sample_points(st.samples, tz_skew)))

\* C29: what a save writes, loaded into a fresh store, is the same price
\* table, samples, booked list and last-fetch timestamp with dirty = false;
\* the period totals and the next finalize cursor are the same; and the blob
\* a save has just written loads to the store as it is
C29_RestartRoundTrip ==
    /\ Restarted(store) = [store EXCEPT !.dirty = FALSE]
    /\ NextCursor(Restarted(store)) = NextCursor(store)
    /\ \A p \in Periods :
           compute_period_breakdown(Restarted(store), now_local(clock, local_offset(tz_skew)), p)
               = compute_period_breakdown(store, now_local(clock, local_offset(tz_skew)), p)
    /\ last.op = "save_write" => async_load(disk) = [store EXCEPT !.dirty = FALSE]

\* C29 witness: a save has written a store that holds a price, samples, a
\* priced booked record and a last-fetch timestamp
C29_Witness ==
    /\ last.op = "save_write"
    /\ DOMAIN store.price_slots # {}
    /\ Len(store.samples) = 2
    /\ Len(store.booked) >= 1
    /\ store.booked[1].status = "ok"
    /\ ~IsNone(store.last_api_success_utc)
    /\ async_load(disk).booked = store.booked
    /\ ~async_load(disk).dirty

----------------------------------------------------------------------------
(* C30 *)

\* the slots a finalize step booked: last'.ret slots from its starting cursor
SlotsBookedByCall == {CallCursor + k * SLOT_MINUTES : k \in 0..(last'.ret - 1)}

\* C30: after a finalize_due_slots call that appended something no booked
\* record starts before now - 400 days, and every record that starts at or
\* after it - booked before the call or by it - is in the list
C30_BookedRetention ==
    [][ (FinalizeStep /\ last'.ret > 0) =>
            /\ \A j \in 1..Len(store'.booked) :
                   store'.booked[j].start >= RetentionCutoff
            /\ \A i \in 1..Len(store.booked) :
                   store.booked[i].start >= RetentionCutoff =>
                       \E j \in 1..Len(store'.booked) : store'.booked[j] = store.booked[i]
            /\ \A s \in SlotsBookedByCall :
                   s >= RetentionCutoff => s \in BookedStarts(store'.booked) ]_vars

\* C30 witness: 400 days after the start a call booked the slots 0 and 15;
\* slot 0 is older than the window and gone, slot 15 starts exactly at
\* now - 400 days and is kept
C30_Witness ==
    /\ last.op = "finalize"
    /\ last.ret = 2
    /\ clock = InitClock + KEEP_DAYS_BOOKED * MinutesPerDay
    /\ Len(store.booked) = 1
    /\ store.booked[1].start = SLOT_MINUTES
    /\ store.booked[1].start = RetentionCutoff

----------------------------------------------------------------------------
(* C31 *)

Summed == last.op = "sum_components"

\* the names a list holds
ListedKeys(components) == {components[i] : i \in 1..Len(components)}

\* the sum of the values of m over the keys K, a missing or None value as 0
RECURSIVE SumOverKeys(_, _)
SumOverKeys(m, K) ==
    IF K = {} THEN 0
    ELSE LET c == CHOOSE x \in K : TRUE
         IN  (IF c \in DOMAIN m /\ m[c] # None THEN m[c][1] ELSE 0)
                 + SumOverKeys(m, K \ {c})

\* C31: sum_components(m, keys) is the sum of m's values over exactly the
\* listed keys, a missing key counting 0 and unlisted keys ignored; the
\* import all-in list holds neither feed_in nor integrated
C31_SumOverAllowedKeys ==
    /\ Summed =>
          /\ last.ret.out = SumOverKeys(last.ret.m, ListedKeys(last.ret.components))
          /\ last.ret.out = SumOverKeys(last.ret.m,
                                ListedKeys(last.ret.components) \cap DOMAIN last.ret.m)
    /\ ListedKeys(IMPORT_ALLIN_COMPONENTS) \cap {"feed_in", "integrated"} = {}

\* C31 witness: the all-in sum of a map that carries feed_in and integrated
\* prices and no metering price counts electricity and grid only
C31_Witness ==
    /\ Summed
    /\ last.ret.components = IMPORT_ALLIN_COMPONENTS
    /\ DOMAIN last.ret.m = {"electricity", "grid", "feed_in", "integrated"}
    /\ last.ret.m["feed_in"] = Some(2)
    /\ last.ret.m["integrated"] = Some(2)
    /\ last.ret.m["electricity"] = Some(1)
    /\ last.ret.m["grid"] = Some(2)
    /\ last.ret.out = 3

----------------------------------------------------------------------------
(* C32 *)

Refreshed == last.op = "coord_refresh"

\* the refresh ran in public mode and the fetch of the active tariff
\* returned at least one slot
ActiveFetched ==
    /\ Refreshed
    /\ last.ret.outcome # "cached"
    /\ coord.mode = "public"
    /\ last.ret.active # << >>

\* the base entry at key k holds the price of the baseline slot at start
CarriesBaseline(k, start) ==
    LET bl == IF coord.baseline_tariff_name /\ ~IsNone(last.ret.fetch.baseline)
              THEN positive_slots(parse_prices(Val(last.ret.fetch.baseline)))
              ELSE << >>
        b == base_get(bl, start)
        entry == Val(coord_store).price_slots[k]
    IN  ~IsNone(b) =>
            /\ ~IsNone(entry.base)
            /\ \E c \in DOMAIN Val(entry.base) : Val(entry.base)[c] = Val(b)

\* C32: after a public-mode refresh whose active fetch succeeded, with a
\* bound store, the refresh ended without error and every fetched active
\* slot with positive price has a price entry at its slot_start whose
\* dynamic map carries that price (and whose baseline map carries the
\* baseline price where the baseline curve has that slot)
C32_RefreshStoresPrices ==
    ActiveFetched =>
        /\ last.ret.outcome = "ok"
        /\ \A i \in 1..Len(last.ret.active) :
               LET s == last.ret.active[i]
                   k == isoformat(s.start)
                   table == Val(coord_store).price_slots
               IN  s.price_chf_per_kwh > 0 =>
                       /\ k \in DOMAIN table
                       /\ \E c \in DOMAIN table[k].dyn :
                              table[k].dyn[c] = s.price_chf_per_kwh
                       /\ CarriesBaseline(k, s.start)

----------------------------------------------------------------------------
(* C33 *)

\* C33: the instant finalize_due_slots rebuilds for a stored sample is the
\* instant add_sample accepted, whatever the two time zones are, so the
\* sample falls into the slot that contains that instant
C33_SampleInstantRoundTrip ==
    \A i \in 1..Len(store.samples) :
        LET t == store.samples[i].ts
            rebuilt == sample_points(store.samples, tz_skew)
        IN  /\ \E k \in 1..Len(rebuilt) : rebuilt[k].dtp = t
            /\ from_timestamp(t, tz_skew) = t
            /\ slot_start_utc(from_timestamp(t, tz_skew)) = slot_start_utc(t)

----------------------------------------------------------------------------
(* C34 *)

\* booked[i..j] is a run: consecutive slots, each booked ok or unpriced
IsRun(i, j) ==
    /\ \A k \in i..j : store.booked[k].status \in {"ok", "unpriced"}
    /\ \A k \in i..(j - 1) :
           store.booked[k + 1].start = store.booked[k].start + SLOT_MINUTES

RECURSIVE RunKwh(_, _)
RunKwh(i, j) == IF i > j THEN 0 ELSE store.booked[i].kwh + RunKwh(i + 1, j)

\* C34: with samples added in order, the consumption booked over a run of
\* consecutive ok/unpriced slots is the last reading at or before the end
\* of the run minus the last reading at or before its start.  A run whose
\* start lies before every stored sample (the readings it was booked from
\* were trimmed since) is not judged.
C34_ConsumptionConserved ==
    \A i, j \in 1..Len(store.booked) :
        (i <= j /\ IsRun(i, j) /\ ~IsNone(RawKwhAt(store.booked[i].start))) =>
            LET from == RawKwhAt(store.booked[i].start)
                to == RawKwhAt(store.booked[j].start + SLOT_MINUTES)
            IN  /\ ~IsNone(to)
                /\ RunKwh(i, j) = Val(to) - Val(from)

----------------------------------------------------------------------------
(* C35 *)

\* dt_util.now().date(), as a day number
Today == toordinal(now_local(clock, local_offset(tz_skew)))

\* C35: a refresh that succeeds on local date D marks D; every further
\* refresh on a marked D returns the cached data, calls no API and writes
\* nothing to the store or the blob; a failed refresh leaves the mark as it
\* was, and a public-mode refresh on an unmarked date asks the API again;
\* the last-successful-fetch timestamp changes only when the fetch of the
\* active tariff returned slots
C35_FetchOncePerDay ==
    [][ last'.op = "coord_refresh" =>
          /\ last'.ret.outcome = "ok" => coord'.last_fetch_date = Some(Today)
          /\ coord.last_fetch_date = Some(Today) =>
                /\ last'.ret.outcome = "cached"
                /\ last'.ret.api_calls = 0
                /\ last'.ret.data = Val(coord.data)
                /\ coord' = coord
                /\ coord_store' = coord_store
                /\ disk' = disk
          /\ last'.ret.outcome = "failed" =>
                coord'.last_fetch_date = coord.last_fetch_date
          /\ (coord.last_fetch_date # Some(Today) /\ coord.mode = "public") =>
                last'.ret.api_calls >= 1
          /\ Val(coord_store').last_api_success_utc # Val(coord_store).last_api_success_utc =>
                /\ coord.mode = "public"
                /\ ~IsNone(last'.ret.fetch.active)
                /\ parse_prices(Val(last'.ret.fetch.active)) # << >>
      ]_vars

\* C35 witness: late on the day of a successful public-mode refresh the API
\* would answer with priced slots, and the refresh returns the curve cached
\* in the morning without asking
C35_Witness ==
    /\ Refreshed
    /\ last.ret.outcome = "cached"
    /\ last.ret.api_calls = 0
    /\ coord.mode = "public"
    /\ clock = MinutesPerDay - 30
    /\ last.ret.data.active # << >>
    /\ ~IsNone(last.ret.fetch.active)
    /\ parse_prices(Val(last.ret.fetch.active)) # last.ret.data.active
    /\ Val(coord_store).last_api_success_utc = Some(InitClock)

----------------------------------------------------------------------------
(* C36 *)

\* C36: finalize_due_slots leaves the sample list, the price table and the
\* last-fetch timestamp as they were, and a call that appends nothing
\* leaves the booked list and the dirty flag as they were too
C36_FinalizerReadsOnly ==
    [][ last'.op = "finalize" =>
          /\ store'.samples = store.samples
          /\ store'.price_slots = store.price_slots
          /\ store'.last_api_success_utc = store.last_api_success_utc
          /\ last'.ret = 0 =>
                /\ store'.booked = store.booked
                /\ store'.dirty = store.dirty
      ]_vars

\* C36 witness: a finalize call found nothing due on a saved store that
\* holds samples, a price entry, booked slots and a fetch timestamp, and
\* the store is still clean
C36_Witness ==
    /\ last.op = "finalize"
    /\ last.ret = 0
    /\ ~store.dirty
    /\ Len(store.samples) >= 2
    /\ Len(store.booked) >= 1
    /\ DOMAIN store.price_slots # {}
    /\ ~IsNone(store.last_api_success_utc)
    /\ as_dict(store) = disk

----------------------------------------------------------------------------
(* C37 *)

\* C37: the upgrade of an oldest-schema blob gives every record the start
\* of the window it was booked for (its key is the end of that window), and
\* the first finalize call after the upgrade books, first, the window that
\* directly follows the last window of the old records, and no window an
\* old record was booked for
C37_UpgradeKeepsWindows ==
    [][ /\ last'.op = "load_oldest" =>
              \A i \in 1..Len(last'.ret) :
                  \E j \in 1..Len(store'.booked) :
                      store'.booked[j].start = last'.ret[i] - SLOT_MINUTES
        /\ (last.op = "load_oldest" /\ last'.op = "finalize" /\ last'.ret > 0) =>
              /\ store'.booked[Len(store.booked) + 1].start = last.ret[Len(last.ret)]
              /\ \A j \in (Len(store.booked) + 1)..Len(store'.booked) :
                     \A i \in 1..Len(last.ret) :
                         store'.booked[j].start # last.ret[i] - SLOT_MINUTES
      ]_vars

====
